---------------------------- MODULE Spec2Model ----------------------------
(***************************************************************************)
(* A model of sunlesssea.py: the entity graph built by SunlessSea, the     *)
(* Entities containers and the "Advanced" string interpreter.              *)
(*                                                                         *)
(* Text is a sequence of one-character strings.  A format template is a    *)
(* sequence whose items are either one character or a replacement field    *)
(* ("{}", "{name}", "{id}").  Python's None is the record None.            *)
(***************************************************************************)
EXTENDS Integers, Sequences, FiniteSets, TLC

VARIABLES
    advText,     \* _parse_adv: the text argument
    advFmt,      \* _parse_adv: the qfmt, dfmt, noqfmt and qnamefmt arguments
    advQual,     \* _parse_adv: self.ss.qualities
    advPos,      \* _parse_adv: where re.finditer resumes scanning text
    advResult,   \* _parse_adv: the local result
    advPc,       \* _parse_adv: "loop" inside the for loop, "done" after return
    advHits,     \* history: matches with key q or d iterated so far
    advSubs,     \* history: result.replace calls performed so far
    collSelf,    \* an Entities container, as its constructor left it
    collCall,    \* the method called on collSelf and its arguments
    collRet,     \* what the call returned or raised
    collPc,      \* "built" before the call, "done" after it
    ssData,      \* SunlessSea: what _load returns for each data file
    ssQualities, \* SunlessSea.qualities
    ssLocations, \* SunlessSea.locations
    ssEvents,    \* SunlessSea.events
    ssAutosave,  \* SunlessSea.autosave.qualities
    ssSettings,  \* SunlessSea.settings: setting id -> its 'locations' set
    ssShops,     \* SunlessSea.shops
    ssPc,        \* SunlessSea.__init__: the statement reached
    ssAt,        \* the iteration reached in the loop that is running
    ssRaised,    \* the exception that ended __init__, and where
    ssCheck,     \* TEST_INTEGRITY
    ssLog,       \* the messages the integrity checks have logged
    foSelf,      \* _format: self, an Effect or a Requirement
    foQual,      \* _format: self.ss.qualities
    foArgs,      \* _format: the templates it was called with
    foOps,       \* _format: the local ops
    foAt,        \* _format: the place in self._OPS the for loop has reached
    foStrs,      \* _format: posopstrs (Effect), opstrs (Requirement)
    foQty,       \* _format: qtyopstrs (Effect)
    foIfs,       \* _format: ifopstrs (Effect)
    foUseqty,    \* _format: useqty (Effect)
    foFmt,       \* _format: the template of the whole text, qfmt or fmt
    foValue,     \* _format: the local value
    foRet,       \* _format: what it returned or raised
    foPc,        \* _format: "loop" inside the for loop, "done", "raised"
    acData,      \* Action.__init__: the keys and values of data, in their order
    acSelf,      \* Action.__init__: self, once built
    acPc,        \* Action.__init__: "call" before it ran, "built" after
    svData,      \* Save._data, the content of the save file
    svQualities, \* Save.qualities, the SaveQuality objects
    svCall,      \* the SaveQuality whose value is set, and the value given
    svRet,       \* what the setter returned or raised
    svPc,        \* "built" before the setter is called, "set" after
    usSelf,      \* Quality.usage: self, a Quality of usQualities
    usEvents,    \* Quality.usage: self.ss.events
    usShops,     \* Quality.usage: self.ss.shops
    usRet,       \* Quality.usage: the results it collected, or what it raised
    usPc         \* "built" before usage is called, "done" after

advVars == <<advText, advFmt, advQual, advPos, advResult, advPc, advHits, advSubs>>

collVars == <<collSelf, collCall, collRet, collPc>>

ssVars == <<ssData, ssQualities, ssLocations, ssEvents, ssAutosave, ssSettings,
            ssShops, ssPc, ssAt, ssRaised, ssCheck, ssLog>>

foVars == <<foSelf, foQual, foArgs, foOps, foAt, foStrs, foQty, foIfs, foUseqty,
            foFmt, foValue, foRet, foPc>>

acVars == <<acData, acSelf, acPc>>

svVars == <<svData, svQualities, svCall, svRet, svPc>>

usVars == <<usSelf, usEvents, usShops, usRet, usPc>>

vars == <<advVars, collVars, ssVars, foVars, acVars, svVars, usVars>>

\* what the interpreter, a container call, SunlessSea.__init__ and _format
\* leave alone
notAdv == <<collVars, ssVars, foVars, acVars, svVars, usVars>>

notColl == <<advVars, ssVars, foVars, acVars, svVars, usVars>>

notSs == <<advVars, collVars, foVars, acVars, svVars, usVars>>

notFo == <<advVars, collVars, ssVars, acVars, svVars, usVars>>

notAc == <<advVars, collVars, ssVars, foVars, svVars, usVars>>

notSv == <<advVars, collVars, ssVars, foVars, acVars, usVars>>

notUs == <<advVars, collVars, ssVars, foVars, acVars, svVars>>

---------------------------------------------------------------------------
(* Python values                                                           *)

None == [kind |-> "None"]

\* None where the other values of the variable are texts
NoText == <<"None">>

Digits == <<"0", "1", "2", "3", "4", "5", "6", "7", "8", "9">>

DigitSet == {Digits[i] : i \in 1..10}

LowerCase == {"a", "b", "c", "d", "e", "f", "g", "h", "i", "j", "k", "l", "m",
              "n", "o", "p", "q", "r", "s", "t", "u", "v", "w", "x", "y", "z"}

Min(S) == CHOOSE m \in S : \A n \in S : m <= n

\* the sequences of a sequence, joined
RECURSIVE Concat(_)
Concat(ps) == IF ps = <<>> THEN <<>> ELSE Head(ps) \o Concat(Tail(ps))

\* unicode.isdigit(): non-empty and every character a digit
isdigit(s) == s # <<>> /\ \A i \in 1..Len(s) : s[i] \in DigitSet

DigitVal(c) == CHOOSE d \in 0..9 : Digits[d + 1] = c

\* int(value) of a string of digits
RECURSIVE int(_)
int(s) ==
    IF s = <<>> THEN 0
    ELSE 10 * int(SubSeq(s, 1, Len(s) - 1)) + DigitVal(s[Len(s)])

\* the decimal text of a natural number, as "{}".format(n) gives it
RECURSIVE str(_)
str(n) ==
    IF n < 10 THEN <<Digits[n + 1]>>
    ELSE str(n \div 10) \o <<Digits[(n % 10) + 1]>>

\* whether needle occurs in hay at index i
IsAt(hay, needle, i) ==
    /\ i + Len(needle) - 1 <= Len(hay)
    /\ SubSeq(hay, i, i + Len(needle) - 1) = needle

\* unicode.find(), 1-based; 0 when needle does not occur
str_find(hay, needle) ==
    LET S == {i \in 1..Len(hay) : IsAt(hay, needle, i)}
    IN  IF S = {} THEN 0 ELSE Min(S)

\* unicode.replace(old, new, 1): the first occurrence of old, or s unchanged
replace(s, old, new) ==
    LET i == str_find(s, old)
    IN  IF i = 0 THEN s
        ELSE SubSeq(s, 1, i - 1) \o new \o SubSeq(s, i + Len(old), Len(s))

\* "{:d}".format(n), and "{}".format(n) for an int
format_d(n) == IF n < 0 THEN <<"-">> \o str(0 - n) ELSE str(n)

\* "{:+d}".format(n)
format_plus_d(n) == IF n < 0 THEN format_d(n) ELSE <<"+">> \o str(n)

\* Entity.__repr__ of a Quality without a name: "<Quality id>"
repr(obj) == <<"<", "Q", "u", "a", "l", "i", "t", "y", " ">> \o format_d(obj.id) \o <<">">>

\* Entity.__unicode__
unicode(obj) == IF obj.name # <<>> THEN obj.name ELSE repr(obj)

\* unicode.format(): every replacement field of fmt replaced by its value
RECURSIVE format(_, _)
format(fmt, env) ==
    IF fmt = <<>> THEN <<>>
    ELSE (CASE Head(fmt) = "{}"             -> env.arg
            [] Head(fmt) = "{name}"         -> env.name
            [] Head(fmt) = "{id}"           -> str(env.id)
            [] Head(fmt) = "{quality}"      -> unicode(env)
            [] Head(fmt) = "{quality.name}" -> env.name
            [] OTHER                        -> <<Head(fmt)>>) \o format(Tail(fmt), env)

\* unicode.format() with keyword arguments: kw maps a field to its text
RECURSIVE format_kw(_, _)
format_kw(fmt, kw) ==
    IF fmt = <<>> THEN <<>>
    ELSE (IF Head(fmt) \in DOMAIN kw THEN kw[Head(fmt)] ELSE <<Head(fmt)>>)
         \o format_kw(Tail(fmt), kw)

\* sep.join(strs)
RECURSIVE join(_, _)
join(sep, strs) ==
    IF strs = <<>> THEN <<>>
    ELSE IF Len(strs) = 1 THEN strs[1]
    ELSE strs[1] \o sep \o join(sep, Tail(strs))

\* iif(cond, trueval): trueval when the list is not empty, else ""
iif(cond, trueval) == IF cond # <<>> THEN trueval ELSE <<>>

\* format_obj(fmt, obj): the fields are the object's public attributes
format_obj(fmt, obj) == format(fmt, [arg |-> <<>>, name |-> obj.name, id |-> obj.id])

---------------------------------------------------------------------------
(* Entity and Entities: the containers                                     *)

\* unicode.strip(): leading and trailing whitespace removed
RECURSIVE strip(_)
strip(s) ==
    IF s = <<>> THEN s
    ELSE IF Head(s) = " " THEN strip(Tail(s))
    ELSE IF s[Len(s)] = " " THEN strip(SubSeq(s, 1, Len(s) - 1))
    ELSE s

\* re.IGNORECASE: both sides are compared in lower case
Upper == <<"A", "B", "C", "D", "E", "F", "G", "H", "I", "J", "K", "L", "M",
           "N", "O", "P", "Q", "R", "S", "T", "U", "V", "W", "X", "Y", "Z">>

Lower == <<"a", "b", "c", "d", "e", "f", "g", "h", "i", "j", "k", "l", "m",
           "n", "o", "p", "q", "r", "s", "t", "u", "v", "w", "x", "y", "z">>

lower(s) ==
    [i \in 1..Len(s) |->
        IF \E k \in 1..26 : Upper[k] = s[i]
        THEN Lower[CHOOSE k \in 1..26 : Upper[k] = s[i]]
        ELSE s[i]]

\* re.search without re.IGNORECASE
re_search_case_sensitive(pattern, text) ==
    \E i \in 1..(Len(text) + 1) : IsAt(text, pattern, i)

\* re.search(pattern, text, re.IGNORECASE) for a pattern of literal characters
re_search(pattern, text) ==
    \E i \in 1..(Len(text) + 1) : IsAt(lower(text), lower(pattern), i)

\* an exception raised instead of a value returned
Raised(exc) == [raised |-> exc]

IsRaised(x) == "raised" \in DOMAIN x

\* list[start:stop]; an omitted bound is <<>>, a given one <<i>>
list_slice(l, start, stop) ==
    LET n == Len(l)
        clamp(b, dflt) ==
            IF b = <<>> THEN dflt
            ELSE IF b[1] < 0 THEN (IF b[1] + n < 0 THEN 0 ELSE b[1] + n)
            ELSE IF b[1] > n THEN n
            ELSE b[1]
    IN  SubSeq(l, clamp(start, 0) + 1, clamp(stop, n))

\* list[i], counted from 0, from the end when negative
list_item(l, i) ==
    IF i >= Len(l) \/ i < 0 - Len(l) THEN Raised("IndexError")
    ELSE l[(IF i < 0 THEN i + Len(l) ELSE i) + 1]

\* A reference held in an attribute.  An object that a container holds is
\* named by its place in the container's _order, so that a later change of
\* the object is seen through every reference; an object created in place,
\* which no container holds, is carried by the reference itself.
RefTo(at) == [kind |-> "ref", at |-> at]

Own(obj) == [kind |-> "own", obj |-> obj]

\* an attribute that still holds the raw integer of the data
IntVal(n) == [kind |-> "int", val |-> n]

\* Entity.__init__: id, name and idx of one record; Name is optional
Entity(data, idx) ==
    [id   |-> data.Id,
     name |-> IF "Name" \in DOMAIN data THEN strip(data.Name) ELSE <<>>,
     idx  |-> idx]

\* Entities.__init__, the loop over entities: _order holds the objects in
\* insertion order, _entities maps an id to the object stored last under it
\* (given here by its place in _order)
Entities(cls, es) ==
    [cls      |-> cls,
     order    |-> es,
     entities |-> [i \in {es[k].id : k \in 1..Len(es)} |->
                     CHOOSE k \in 1..Len(es) :
                        /\ es[k].id = i
                        /\ \A m \in (k + 1)..Len(es) : es[m].id # i]]

\* Entities.get
get(coll, eid, default) ==
    IF eid \in DOMAIN coll.entities THEN coll.order[coll.entities[eid]]
    ELSE default

\* Entities.get where the caller keeps the object: a reference to it, or None
get_ref(coll, eid) ==
    IF eid \in DOMAIN coll.entities THEN RefTo(coll.entities[eid]) ELSE None

\* Entities.__iter__, as list(collection)
iter(coll) == coll.order

\* Entities.__len__
len(coll) == Cardinality(DOMAIN coll.entities)

\* Entities.find
find(coll, name) ==
    IF name = <<>> THEN coll
    ELSE Entities(coll.cls,
                  SelectSeq(iter(coll), LAMBDA e : re_search(name, e.name)))

\* Entities.__getitem__, isinstance(val, int)
getitem_int(coll, val) == list_item(coll.order, val)

\* a slice that always starts at the first entity
getitem_slice_from_first(coll, start, stop) ==
    Entities(coll.cls, list_slice(coll.order, <<>>, stop))

\* Entities.__getitem__, val a slice
getitem_slice(coll, start, stop) ==
    Entities(coll.cls, list_slice(coll.order, start, stop))

---------------------------------------------------------------------------
(* The entity classes.  ss is the SunlessSea instance as far as it is      *)
(* built: a record of its containers, or None.                             *)

\* Quality.__init__
Quality(data, idx) ==
    Entity(data, idx) @@
    [category         |-> IF "Category" \in DOMAIN data THEN data.Category ELSE 0,
     difficultyscaler |-> IF "DifficultyScaler" \in DOMAIN data
                          THEN data.DifficultyScaler ELSE 0]

\* Location.__init__
Location(data, idx) ==
    [id      |-> data.Id,
     name    |-> IF "Name" \in DOMAIN data THEN strip(data.Name) ELSE <<>>,
     idx     |-> idx,
     setting |-> 0]

\* "if self.ss and self.ss.<container>": the instance is given and its
\* container is not empty
HasEntities(ss, container) ==
    /\ ss # None
    /\ container \in DOMAIN ss
    /\ len(ss[container]) > 0

\* a dummy that does not keep the referenced id
DummyQuality_without_id(qid) == Quality([Id |-> 0, Name |-> <<>>], 0)

\* Quality(data={'Id': qid, 'Name':''}, ss=self.ss), "a dummy one"
DummyQuality(qid) == Quality([Id |-> qid, Name |-> <<>>], 0)

\* QualityOperator.__init__, for cls Requirement or Effect
QualityOperator(cls, data, idx, ss) ==
    LET qid   == data.AssociatedQuality.Id
        found == IF HasEntities(ss, "qualities")
                 THEN get(ss.qualities, qid, None)
                 ELSE None
    IN  [cls      |-> cls,
         id       |-> data.Id,
         idx      |-> idx,
         quality  |-> IF found # None THEN found ELSE DummyQuality(qid),
         operator |-> [op \in DOMAIN data \ {"AssociatedQuality", "Id"} |->
                          data[op]]]

\* BaseEvent._qualop_types
qualop_types ==
    [requirements |-> <<"QualitiesRequired", "Requirement">>,
     effects      |-> <<"QualitiesAffected", "Effect">>]

\* BaseEvent._create_qualops, where the data holds the key
create_qualops(data, attr, ss) ==
    LET key == qualop_types[attr][1]
        cls == qualop_types[attr][2]
    IN  [i \in 1..Len(data[key]) |-> QualityOperator(cls, data[key][i], i, ss)]

\* self._data[key] of _create_qualops raises KeyError
lacks_qualops(data, attr) == qualop_types[attr][1] \notin DOMAIN data

\* an Outcome that does not keep the id of LinkToEvent
Outcome_without_link(data, idx, ss, otype) ==
    IF lacks_qualops(data, "effects") THEN Raised("KeyError")
    ELSE [id      |-> data.Id,
          idx     |-> idx,
          type    |-> otype,
          trigger |-> None,
          effects |-> create_qualops(data, "effects", ss)]

\* Outcome.__init__
Outcome(data, idx, ss, otype) ==
    IF lacks_qualops(data, "effects") THEN Raised("KeyError")
    ELSE [id      |-> data.Id,
          idx     |-> idx,
          type    |-> otype,
          trigger |-> IF "LinkToEvent" \in DOMAIN data
                      THEN IntVal(data.LinkToEvent.Id)
                      ELSE None,
          effects |-> create_qualops(data, "effects", ss)]

\* the outcomes of a success before the default ones
OUTCOME_TYPES_success_first ==
    <<"SuccessEvent", "RareSuccessEvent", "DefaultEvent", "RareDefaultEvent">>

\* Action._OUTCOME_TYPES
OUTCOME_TYPES ==
    <<"DefaultEvent", "RareDefaultEvent", "SuccessEvent", "RareSuccessEvent">>

\* Action.__init__
Action(data, idx, ss) ==
    IF lacks_qualops(data, "requirements") THEN Raised("KeyError")
    ELSE LET present  == SelectSeq(OUTCOME_TYPES, LAMBDA t : t \in DOMAIN data)
             outcomes == [i \in 1..Len(present) |->
                             Outcome(data[present[i]], i, ss, present[i])]
         IN  IF \E i \in 1..Len(outcomes) : IsRaised(outcomes[i])
             THEN Raised("KeyError")
             ELSE [id           |-> data.Id,
                   idx          |-> idx,
                   requirements |-> create_qualops(data, "requirements", ss),
                   canfail      |-> "SuccessEvent" \in DOMAIN data,
                   outcomes     |-> outcomes]

\* an Event whose area is not found is left without location
EventLocation_without_placeholder(data, ss) ==
    IF "LimitedToArea" \notin DOMAIN data THEN None
    ELSE IF HasEntities(ss, "locations")
    THEN get_ref(ss.locations, data.LimitedToArea.Id)
    ELSE None

\* Event.__init__, the location attribute
EventLocation(data, ss) ==
    IF "LimitedToArea" \notin DOMAIN data THEN None
    ELSE LET found == IF HasEntities(ss, "locations")
                      THEN get_ref(ss.locations, data.LimitedToArea.Id)
                      ELSE None
         IN  IF found # None THEN found
             ELSE Own(Location(data.LimitedToArea, 0))

\* Event.__init__
Event(data, idx, ss) ==
    IF lacks_qualops(data, "requirements") \/ lacks_qualops(data, "effects")
    THEN Raised("KeyError")
    ELSE LET branches == IF "ChildBranches" \in DOMAIN data
                         THEN data.ChildBranches ELSE <<>>
             actions  == [i \in 1..Len(branches) |-> Action(branches[i], i, ss)]
         IN  IF \E i \in 1..Len(actions) : IsRaised(actions[i])
             THEN Raised("KeyError")
             ELSE [id           |-> data.Id,
                   idx          |-> idx,
                   name         |-> IF "Name" \in DOMAIN data
                                    THEN strip(data.Name) ELSE <<>>,
                   location     |-> EventLocation(data, ss),
                   requirements |-> create_qualops(data, "requirements", ss),
                   effects      |-> create_qualops(data, "effects", ss),
                   actions      |-> actions]

\* SaveQuality.__init__; self._data is the record itself, the idx-th of the
\* list the object is built from
SaveQuality(data, idx, ss) ==
    LET found == get(ss.qualities, data.AssociatedQualityId, None)
    IN  [id       |-> data.AssociatedQualityId,
         idx      |-> idx,
         quality  |-> IF found # None THEN found
                      ELSE DummyQuality(data.AssociatedQualityId),
         modifier |-> data.EffectiveLevelModifier]

\* ShopItem.__init__
ShopItem(data, idx, ss) ==
    [id       |-> data.Id,
     idx      |-> idx,
     item     |-> get(ss.qualities, data.Quality.Id, None),
     currency |-> get(ss.qualities, data.PurchaseQuality.Id, None),
     buy      |-> IF "Cost" \in DOMAIN data THEN data.Cost ELSE 0,
     sell     |-> IF "SellPrice" \in DOMAIN data THEN data.SellPrice ELSE 0]

\* Shop.__init__
Shop(data, idx, ss, locations) ==
    [id        |-> data.Id,
     idx       |-> idx,
     name      |-> IF "Name" \in DOMAIN data THEN strip(data.Name) ELSE <<>>,
     locations |-> locations,
     items     |-> [i \in 1..Len(data.Availabilities) |->
                       ShopItem(data.Availabilities[i], i, ss)]]

\* EntityCls of each container class
EntityCls(cls, edata, idx, ss) ==
    CASE cls = "Qualities"     -> Quality(edata, idx)
      [] cls = "Locations"     -> Location(edata, idx)
      [] cls = "Events"        -> Event(edata, idx, ss)
      [] cls = "SaveQualities" -> SaveQuality(edata, idx, ss)
      [] OTHER                 -> Entity(edata, idx)

\* Entities.__init__, the loop over data: EntityCls(data=edata, idx=idx, ss=ss)
EntitiesFromData(cls, data, ss) ==
    Entities(cls, [k \in 1..Len(data) |-> EntityCls(cls, data[k], k, ss)])

---------------------------------------------------------------------------
(* Entity._parse_adv: the "Advanced" string interpreter                    *)

\* a value of plain characters only: (?:[^][]+)
RECURSIVE re_adv_value_flat(_, _)
re_adv_value_flat(text, p) ==
    IF p > Len(text) THEN p
    ELSE IF text[p] \notin {"[", "]"} THEN re_adv_value_flat(text, p + 1)
    ELSE p

\* the end of the longest run of (?:[^][]+|\[[^][]+])  units that starts at p
RECURSIVE re_adv_value(_, _)
re_adv_value(text, p) ==
    IF p > Len(text) THEN p
    ELSE IF text[p] \notin {"[", "]"} THEN re_adv_value(text, p + 1)
    ELSE IF text[p] = "]" THEN p
    ELSE LET close == {i \in (p + 1)..Len(text) : text[i] \in {"[", "]"}}
             r == IF close = {} THEN 0 ELSE Min(close)
         IN  IF r > p + 1 /\ text[r] = "]" THEN re_adv_value(text, r + 1)
             ELSE p

\* _re_adv matched at s: the index after the match, or 0 when it does not match
re_adv_match(text, s) ==
    IF /\ s + 2 <= Len(text)
       /\ text[s] = "["
       /\ text[s + 1] \in LowerCase
       /\ text[s + 2] = ":"
    THEN LET e == re_adv_value(text, s + 3)
         IN  IF e > s + 3 /\ e <= Len(text) /\ text[e] = "]" THEN e + 1 ELSE 0
    ELSE 0

\* re.finditer: the start of the leftmost match at or after pos, or 0
re_adv_search(text, pos) ==
    LET S == {s \in pos..Len(text) : re_adv_match(text, s) # 0}
    IN  IF S = {} THEN 0 ELSE Min(S)

\* a match object: match.group(), match.group('key', 'value') and its span
Match(text, s) ==
    LET e == re_adv_match(text, s)
    IN  [start |-> s, stop |-> e,
         mstr  |-> SubSeq(text, s, e - 1),
         key   |-> text[s + 1],
         value |-> SubSeq(text, s + 3, e - 2)]

\* "if subst:": neither None nor the empty string
Truthy(subst) == subst # NoText /\ subst # <<>>

RECURSIVE parse_adv(_, _, _)

\* what the recognised keys have in common, for the variants below
parse_adv_subst_quality(m, fmt, quals) ==
    IF isdigit(m.value) THEN
        LET quality == IF len(quals) > 0
                       THEN get(quals, int(m.value), None)
                       ELSE None
        IN  IF quality # None
            THEN format_obj(fmt.qfmt, quality)
            ELSE format(fmt.noqfmt, [arg |-> m.value])
    ELSE format(fmt.qnamefmt, [arg |-> m.value])

\* a loop body that substitutes the value of a token with an unknown key
parse_adv_subst_any_key(m, fmt, quals) ==
    IF m.key = "q" THEN parse_adv_subst_quality(m, fmt, quals)
    ELSE IF m.key = "d" THEN
        format(fmt.dfmt, [arg |-> parse_adv(m.value, fmt, quals)])
    ELSE m.value

\* a loop body that does not interpret the value of a dice token
parse_adv_subst_no_recursion(m, fmt, quals) ==
    IF m.key = "q" THEN parse_adv_subst_quality(m, fmt, quals)
    ELSE IF m.key = "d" THEN format(fmt.dfmt, [arg |-> m.value])
    ELSE NoText

\* the value of subst the loop body computes for one match
parse_adv_subst(m, fmt, quals) ==
    IF m.key = "q" THEN
        IF isdigit(m.value) THEN
            LET quality == IF len(quals) > 0
                           THEN get(quals, int(m.value), None)
                           ELSE None
            IN  IF quality # None
                THEN format_obj(fmt.qfmt, quality)
                ELSE format(fmt.noqfmt, [arg |-> m.value])
        ELSE format(fmt.qnamefmt, [arg |-> m.value])
    ELSE IF m.key = "d" THEN
        format(fmt.dfmt, [arg |-> parse_adv(m.value, fmt, quals)])
    ELSE NoText

\* one iteration of the loop body on result
parse_adv_body(result, m, fmt, quals) ==
    LET subst == parse_adv_subst(m, fmt, quals)
    IN  IF Truthy(subst) THEN replace(result, m.mstr, subst) ELSE result

\* the for loop from scan position pos on
RECURSIVE parse_adv_loop(_, _, _, _, _)
parse_adv_loop(text, pos, result, fmt, quals) ==
    LET s == re_adv_search(text, pos)
    IN  IF s = 0 THEN result
        ELSE LET m == Match(text, s)
             IN  parse_adv_loop(text, m.stop,
                                parse_adv_body(result, m, fmt, quals),
                                fmt, quals)

parse_adv(text, fmt, quals) == parse_adv_loop(text, 1, text, fmt, quals)

---------------------------------------------------------------------------
(* The interpreter's inputs                                                *)

MaxPieces == 4

MaxDepth == 2

\* the fragments a text is put together from: plain text, quality tokens by
\* ID and by name, a token with an unknown key, and the openers and closer
\* that nest tokens
Pieces == { <<"a">>,
            <<"[", "q", ":", "1", "]">>,
            <<"[", "q", ":", "x", "]">>,
            <<"[", "k", ":", "x", "]">>,
            <<"[", "d", ":">>,
            <<"[", "q", ":">>,
            <<"[", "k", ":">>,
            <<"]">> }

\* text wrapped in n dice tokens: n times "[d:", text, n times "]"
RECURSIVE Nested(_, _)
Nested(n, text) ==
    IF n = 0 THEN text ELSE <<"[", "d", ":">> \o Nested(n - 1, text) \o <<"]">>

\* up to MaxPieces fragments in a row, and one fragment inside up to MaxDepth
\* dice tokens
Texts ==
    {Concat(ps) : ps \in UNION {[1..n -> Pieces] : n \in 0..MaxPieces}} \cup
    {Nested(n, piece) : n \in 1..MaxDepth, piece \in Pieces}

\* the defaults of _parse_adv
FmtDefault ==
    [qfmt     |-> <<"[", "{name}", "]">>,
     dfmt     |-> <<"[", "1", " ", "t", "o", " ", "{}", "]">>,
     noqfmt   |-> <<"[", "Q", "u", "a", "l", "i", "t", "y", "(", "{}", ")", "]">>,
     qnamefmt |-> <<"{", "{}", "}">>]

\* Entity.wikirow and Action.wikirow: qnamefmt="[q:[[{}]]]"
FmtWikiRow ==
    [FmtDefault EXCEPT !.qnamefmt = <<"[", "q", ":", "[", "[", "{}", "]", "]", "]">>]

\* QualityOperator.wiki: advfmt='([[{name}]])' passed as qfmt
FmtWiki ==
    [FmtDefault EXCEPT !.qfmt = <<"(", "[", "[", "{name}", "]", "]", ")">>]

\* caller-supplied templates that hold nothing but the replacement field
FmtBare ==
    [qfmt |-> <<"{name}">>, dfmt |-> <<"{}">>, noqfmt |-> <<"{}">>,
     qnamefmt |-> <<"{}">>]

SourceFormats == {FmtDefault, FmtWikiRow, FmtWiki}

Formats == SourceFormats \cup {FmtBare}

Dice == <<"D", "i", "c", "e">>

\* the records of qualities_import.json the registry is built from: none,
\* or Quality 1 with or without a name
AdvQualityData ==
    {<<>>, <<[Id |-> 1, Name |-> Dice]>>, <<[Id |-> 1, Name |-> <<>>]>>}

---------------------------------------------------------------------------
(* _parse_adv, one action per branch of the loop body                      *)

AdvInit ==
    /\ advText \in Texts
    /\ advFmt \in Formats
    /\ advQual \in {EntitiesFromData("Qualities", d, None) : d \in AdvQualityData}
    /\ advPos = 1
    /\ advResult = advText
    /\ advPc = "loop"
    /\ advHits = 0
    /\ advSubs = 0

\* the match the for loop yields next, when there is one
AdvMatch == Match(advText, re_adv_search(advText, advPos))

AdvIterate(m) ==
    /\ advResult' = parse_adv_body(advResult, m, advFmt, advQual)
    /\ advPos' = m.stop
    /\ advSubs' = advSubs +
                  IF Truthy(parse_adv_subst(m, advFmt, advQual)) THEN 1 ELSE 0
    /\ UNCHANGED <<advText, advFmt, advQual, advPc, notAdv>>

\* key == 'q'
parse_adv_quality ==
    /\ advPc = "loop"
    /\ re_adv_search(advText, advPos) # 0
    /\ AdvMatch.key = "q"
    /\ AdvIterate(AdvMatch)
    /\ advHits' = advHits + 1

\* key == 'd'
parse_adv_dice ==
    /\ advPc = "loop"
    /\ re_adv_search(advText, advPos) # 0
    /\ AdvMatch.key = "d"
    /\ AdvIterate(AdvMatch)
    /\ advHits' = advHits + 1

\* any other key: a warning is logged
parse_adv_unknown ==
    /\ advPc = "loop"
    /\ re_adv_search(advText, advPos) # 0
    /\ AdvMatch.key \notin {"q", "d"}
    /\ AdvIterate(AdvMatch)
    /\ advHits' = advHits

\* the iterator is exhausted: return result
parse_adv_return ==
    /\ advPc = "loop"
    /\ re_adv_search(advText, advPos) = 0
    /\ advPc' = "done"
    /\ UNCHANGED <<advText, advFmt, advQual, advPos, advResult, advHits, advSubs,
                   notAdv>>

AdvNext ==
    \/ parse_adv_quality
    \/ parse_adv_dice
    \/ parse_adv_unknown
    \/ parse_adv_return

---------------------------------------------------------------------------
(* One call on an Entities container                                       *)

MaxRecords == 3

CollIds == {1, 2}

\* names as the data files hold them: absent text, mixed case, padded
CollNames == {<<>>, <<"A", "b">>, <<" ", "b">>}

CollRecords == [Id : CollIds, Name : CollNames]

CollData == UNION {[1..n -> CollRecords] : n \in 0..MaxRecords}

CollKinds == {"Qualities", "Locations"}

CollPatterns == {<<>>, <<"a">>, <<"B">>, <<"a", "b">>}

\* a slice bound: omitted, or an index up to one beyond either end
CollBounds == {<<>>} \cup {<<i>> : i \in (0 - MaxRecords - 1)..(MaxRecords + 1)}

CollInit ==
    /\ collSelf \in {EntitiesFromData(cls, d, None) : cls \in CollKinds, d \in CollData}
    /\ collCall = [op |-> "init"]
    /\ collRet = None
    /\ collPc = "built"

CollCall(call, ret) ==
    /\ collPc = "built"
    /\ collCall' = call
    /\ collRet' = ret
    /\ collPc' = "done"
    /\ UNCHANGED <<collSelf, notColl>>

call_find ==
    \E name \in CollPatterns :
        CollCall([op |-> "find", name |-> name], find(collSelf, name))

call_get ==
    \E eid \in CollIds \cup {0} :
        CollCall([op |-> "get", eid |-> eid], get(collSelf, eid, None))

call_getitem_int ==
    \E val \in (0 - MaxRecords - 1)..(MaxRecords + 1) :
        CollCall([op |-> "getitem_int", val |-> val], getitem_int(collSelf, val))

call_getitem_slice ==
    \E start \in CollBounds, stop \in CollBounds :
        CollCall([op |-> "getitem_slice", start |-> start, stop |-> stop],
                 getitem_slice(collSelf, start, stop))

CollNext ==
    \/ call_find
    \/ call_get
    \/ call_getitem_int
    \/ call_getitem_slice

---------------------------------------------------------------------------
(* TEST_INTEGRITY: the validation of the data, which logs what it finds    *)

\* Entity._ENTITY_FIELDS
ENTITY_FIELDS == {"Id", "Name", "Description", "Image"}

\* Entity._ENTITY_REQUIRED
ENTITY_REQUIRED == {"Id"}

\* BaseEvent._OPTIONAL_FIELDS
BASE_EVENT_OPTIONAL == {"Name", "Description", "Image"}

\* _REQUIRED_FIELDS of each class
REQUIRED_FIELDS(cls) ==
    CASE cls = "Quality"     -> {"Name"}
      [] cls = "Location"    -> {"Name"}
      [] cls = "ShopItem"    -> {"Quality", "PurchaseQuality"}
      [] cls = "Shop"        -> ENTITY_FIELDS \cup {"Availabilities"}
      [] cls = "Requirement" -> {"AssociatedQuality"}
      [] cls = "Effect"      -> {"AssociatedQuality"}
      [] cls = "Event"       -> {"ChildBranches", "QualitiesRequired",
                                 "QualitiesAffected"}
      [] cls = "Action"      -> {"QualitiesRequired", "ParentEvent", "DefaultEvent"}
      [] cls = "Outcome"     -> {}

\* _OPTIONAL_FIELDS of each class
OPTIONAL_FIELDS(cls) ==
    CASE cls = "Quality"     ->
            {"Description", "Image", "ChangeDescriptionText",
             "LevelDescriptionText", "LevelImageText", "AvailableAt", "Cap",
             "Category", "DifficultyScaler", "DifficultyTestType", "IsSlot",
             "Nature", "Persistent", "Tag", "Visible"}
      [] cls = "Location"    -> {"Description", "ImageName", "MoveMessage"}
      [] cls = "ShopItem"    -> {"Cost", "SellPrice"}
      [] cls = "Shop"        -> {}
      [] cls = "Requirement" ->
            {"DifficultyLevel", "DifficultyAdvanced", "MinLevel", "MinAdvanced",
             "MaxLevel", "MaxAdvanced"}
      [] cls = "Effect"      ->
            {"Level", "ChangeByAdvanced", "SetToExactly", "SetToExactlyAdvanced",
             "OnlyIfAtLeast", "OnlyIfNoMoreThan"}
      [] cls = "Event"       ->
            BASE_EVENT_OPTIONAL \cup {"Autofire", "Category", "LimitedToArea"}
      [] cls = "Action"      ->
            BASE_EVENT_OPTIONAL \cup
            {"RareDefaultEvent", "SuccessEvent", "RareSuccessEvent"} \cup
            {"DefaultEventChance", "RareDefaultEventChance", "SuccessEventChance",
             "RareSuccessEventChance"}
      [] cls = "Outcome"     ->
            (BASE_EVENT_OPTIONAL \ {"Image"}) \cup {"QualitiesAffected", "LinkToEvent"}

\* _IGNORED_FIELDS of each class
IGNORED_FIELDS(cls) ==
    CASE cls = "Quality"     ->
            {"AllowedOn", "AssignToSlot", "CssClasses", "Enhancements", "Notes",
             "Ordering", "OwnerName", "PyramidNumberIncreaseLimit",
             "QEffectPriority", "QualitiesPossessedList", "UseEvent",
             "UsePyramidNumbers"}
      [] cls = "Location"    -> {}
      [] cls = "ShopItem"    -> {"BuyMessage", "SellMessage"}
      [] cls = "Shop"        -> {"Ordering"}
      [] cls \in {"Requirement", "Effect"} ->
            {"VisibleWhenRequirementFailed", "BranchVisibleWhenRequirementFailed",
             "Priority", "ForceEquip"}
      [] cls = "Event"       ->
            {"CanGoBack", "ChallengeLevel", "Deck", "Distribution", "ExoticEffects",
             "Ordering", "Setting", "Stickiness", "Transient", "Urgency"}
      [] cls = "Action"      -> {"ActionCost", "ButtonText", "Ordering"}
      [] cls = "Outcome"     ->
            {"Category", "ExoticEffects", "MoveToArea", "Urgency", "SwitchToSetting",
             "SwitchToSettingId"}

\* one message of the log: its level, its text, the object it is about and
\* the values it shows
Message(level, msg, cls, id, shown) ==
    [level |-> level, msg |-> msg, cls |-> cls, id |-> id, shown |-> shown]

\* Entity._test_integrity: the messages it logs for an object of class cls
\* built from data, with or without a SunlessSea instance
test_integrity(cls, data, has_ss) ==
    LET fields  == DOMAIN data
        missing == (ENTITY_REQUIRED \cup REQUIRED_FIELDS(cls)) \ fields
        unknown == fields \ (ENTITY_REQUIRED \cup REQUIRED_FIELDS(cls) \cup
                             OPTIONAL_FIELDS(cls) \cup IGNORED_FIELDS(cls))
    IN  (IF missing # {}
         THEN <<Message("error", "is missing REQUIRED fields", cls, data.Id, missing)>>
         ELSE <<>>) \o
        (IF unknown # {}
         THEN <<Message("warn", "contains UNKNOWN fields", cls, data.Id, unknown)>>
         ELSE <<>>) \o
        (IF ~has_ss
         THEN <<Message("error", "has no reference to a SunlessSea instance",
                        cls, data.Id, {})>>
         ELSE <<>>)

\* BaseEvent.__init__ under TEST_INTEGRITY: ParentEvent against the parent
\* (its id, or None)
base_event_integrity(cls, data, parent) ==
    IF "ParentEvent" \notin DOMAIN data THEN <<>>
    ELSE IF parent = None
    THEN <<Message("warn", "should have parent with ID", cls, data.Id,
                   {data.ParentEvent.Id})>>
    ELSE IF parent.id # data.ParentEvent.Id
    THEN <<Message("warn", "Parent ID in object and data don't match", cls, data.Id,
                   {parent.id, data.ParentEvent.Id})>>
    ELSE <<>>

\* QualityOperator.__init__ and Effect.__init__ under TEST_INTEGRITY
operator_integrity(cls, data) ==
    LET ops == DOMAIN data \ ({"AssociatedQuality", "Id"} \cup IGNORED_FIELDS(cls))
    IN  (IF ops = {}
         THEN <<Message("error", "No relevant operators", cls, data.Id, {})>>
         ELSE <<>>) \o
        (IF /\ cls = "Effect"
            /\ Cardinality(ops \ {"OnlyIfAtLeast", "OnlyIfNoMoreThan"}) > 1
         THEN <<Message("error", "Mutually exclusive operators", cls, data.Id,
                        ops \ {"OnlyIfAtLeast", "OnlyIfNoMoreThan"})>>
         ELSE <<>>)

\* BaseEvent._create_qualops under TEST_INTEGRITY: for each item the test
\* for a Quality seen before in the list, then what its constructor logs
qualops_integrity(data, attr) ==
    LET key   == qualop_types[attr][1]
        cls   == qualop_types[attr][2]
        items == data[key]
    IN  Concat([i \in 1..Len(items) |->
           (IF \E j \in 1..(i - 1) :
                  items[j].AssociatedQuality.Id = items[i].AssociatedQuality.Id
            THEN <<Message("error", "Duplicate quality", attr, data.Id,
                           {items[i].AssociatedQuality.Id})>>
            ELSE <<>>) \o
           test_integrity(cls, items[i], TRUE) \o
           operator_integrity(cls, items[i])])

\* Outcome.__init__ under TEST_INTEGRITY
outcome_integrity(data, parent) ==
    test_integrity("Outcome", data, TRUE) \o
    base_event_integrity("Outcome", data, parent) \o
    qualops_integrity(data, "effects")

\* Action.__init__ under TEST_INTEGRITY
action_integrity(data, parent) ==
    LET present == SelectSeq(OUTCOME_TYPES, LAMBDA t : t \in DOMAIN data)
    IN  test_integrity("Action", data, TRUE) \o
        base_event_integrity("Action", data, parent) \o
        qualops_integrity(data, "requirements") \o
        Concat([i \in 1..Len(present) |->
                  outcome_integrity(data[present[i]], [id |-> data.Id])])

\* Event.__init__ under TEST_INTEGRITY, for an Event built with a SunlessSea
\* instance: the placeholder Location is built without one
event_integrity(data, ss) ==
    LET branches == IF "ChildBranches" \in DOMAIN data
                    THEN data.ChildBranches ELSE <<>>
    IN  test_integrity("Event", data, TRUE) \o
        base_event_integrity("Event", data, None) \o
        (IF EventLocation(data, ss).kind = "own"
         THEN test_integrity("Location", data.LimitedToArea, FALSE)
         ELSE <<>>) \o
        qualops_integrity(data, "requirements") \o
        qualops_integrity(data, "effects") \o
        Concat([i \in 1..Len(branches) |->
                  action_integrity(branches[i], [id |-> data.Id])])

\* Shop.__init__ under TEST_INTEGRITY
shop_integrity(data) ==
    test_integrity("Shop", data, TRUE) \o
    Concat([i \in 1..Len(data.Availabilities) |->
              test_integrity("ShopItem", data.Availabilities[i], TRUE)])

\* Entities.__init__ under TEST_INTEGRITY: what the constructors of the
\* entities log, in the order of data
entities_integrity(cls, data, ss) ==
    Concat([k \in 1..Len(data) |->
              CASE cls = "Qualities" -> test_integrity("Quality", data[k], TRUE)
                [] cls = "Locations" -> test_integrity("Location", data[k], TRUE)
                [] cls = "Events"    -> event_integrity(data[k], ss)
                [] cls = "Shops"     -> shop_integrity(data[k])
                [] OTHER             -> <<>>])

---------------------------------------------------------------------------
(* SunlessSea.__init__: the containers are built in turn, then every       *)
(* outcome's LinkToEvent is resolved                                       *)

MaxEvents == 2

Echo == <<"E", "c", "h", "o">>

GraphQualities == <<[Id |-> 1, Name |-> Dice], [Id |-> 2, Name |-> Echo]>>

\* qualities_import.json: no Quality, either one, or both
GraphQualityData ==
    {<<>>, <<GraphQualities[1]>>, <<GraphQualities[2]>>, GraphQualities}

\* one record of events_import.json: a requirement and an effect on Quality
\* qref, and one branch whose default outcome links to Event link (0: to none)
EventData(id, qref, link) ==
    LET req == [Id |-> 1, AssociatedQuality |-> [Id |-> qref], MinLevel |-> 1]
        eff == [Id |-> 1, AssociatedQuality |-> [Id |-> qref], Level |-> 1]
        out == [Id |-> id, QualitiesAffected |-> <<eff>>]
    IN  [Id                |-> id,
         QualitiesRequired |-> <<req>>,
         QualitiesAffected |-> <<eff>>,
         ChildBranches     |->
            << [Id                |-> id,
                QualitiesRequired |-> <<req>>,
                DefaultEvent      |-> IF link = 0 THEN out
                                      ELSE out @@ [LinkToEvent |-> [Id |-> link]]] >>]

EventIds == {1, 2}

\* the LinkToEvent ids of the data: none, an Event that may be loaded, and
\* one that never is
LinkIds == {0} \cup EventIds \cup {3}

EventRecords ==
    {EventData(id, qref, link) : id \in EventIds, qref \in {1, 2}, link \in LinkIds}

GraphEventData == UNION {[1..n -> EventRecords] : n \in 1..MaxEvents}

\* Autosave.json
GraphSave ==
    [QualitiesPossessedList |->
        << [AssociatedQualityId |-> 1, Level |-> 5, EffectiveLevelModifier |-> 0],
           [AssociatedQualityId |-> 2, Level |-> 0, EffectiveLevelModifier |-> 1] >>]

\* exchanges_import.json
GraphExchanges ==
    << [SettingIds |-> <<1, 2>>,
        Shops |-> << [Id |-> 1,
                      Name |-> <<"S">>,
                      Availabilities |->
                         << [Id |-> 1,
                             Quality |-> [Id |-> 1],
                             PurchaseQuality |-> [Id |-> 2],
                             Cost |-> 3,
                             SellPrice |-> 1] >>] >>] >>

\* areas_import.json
GraphAreas == << [Id |-> 1, Name |-> <<"P">>] >>

\* geography/Tiles_import.json: a port of a loaded area, a port of an unknown one
GraphTiles ==
    << [Name |-> <<"T">>,
        Tiles |-> << [Name |-> <<"t">>,
                      PortData |-> << [Area |-> [Id |-> 1], Setting |-> [Id |-> 1]],
                                      [Area |-> [Id |-> 2], Setting |-> [Id |-> 1]] >>] >>] >>

\* the instance as the entity constructors see it
SS == [qualities |-> ssQualities, locations |-> ssLocations]

SsAtRest ==
    /\ ssQualities = None
    /\ ssLocations = None
    /\ ssEvents = None
    /\ ssAutosave = None
    /\ ssSettings = None
    /\ ssShops = None
    /\ ssAt = 0
    /\ ssRaised = None
    /\ ssLog = <<>>

GraphInit ==
    /\ ssData \in [qualities : GraphQualityData,
                   areas     : {GraphAreas},
                   events    : GraphEventData,
                   save      : {GraphSave},
                   tiles     : {GraphTiles},
                   exchanges : {GraphExchanges}]
    /\ ssCheck \in BOOLEAN
    /\ ssPc = "qualities"
    /\ SsAtRest

\* "if TEST_INTEGRITY:" around a check: the log after it
Logged(messages) == IF ssCheck THEN ssLog \o messages ELSE ssLog

\* self.qualities = Qualities(ss=self, **self._load('qualities'))
load_qualities ==
    /\ ssPc = "qualities"
    /\ ssQualities' = EntitiesFromData("Qualities", ssData.qualities, None)
    /\ ssLog' = Logged(entities_integrity("Qualities", ssData.qualities, None))
    /\ ssPc' = "locations"
    /\ UNCHANGED <<ssData, ssLocations, ssEvents, ssAutosave, ssSettings, ssShops,
                   ssAt, ssRaised, ssCheck, notSs>>

\* self.locations = Locations(ss=self, **self._load('areas'))
load_locations ==
    /\ ssPc = "locations"
    /\ ssLocations' = EntitiesFromData("Locations", ssData.areas, None)
    /\ ssLog' = Logged(entities_integrity("Locations", ssData.areas, None))
    /\ ssPc' = "events"
    /\ UNCHANGED <<ssData, ssQualities, ssEvents, ssAutosave, ssSettings, ssShops,
                   ssAt, ssRaised, ssCheck, notSs>>

\* self.events = Events(ss=self, **self._load('events'))
load_events ==
    /\ ssPc = "events"
    /\ LET events == EntitiesFromData("Events", ssData.events, SS)
       IN  IF \E k \in 1..Len(events.order) : IsRaised(events.order[k])
           THEN /\ ssPc' = "raised"
                /\ ssRaised' = [exc |-> "KeyError", in |-> "events"]
                /\ UNCHANGED <<ssEvents, ssLog>>
           ELSE /\ ssPc' = "autosave"
                /\ ssEvents' = events
                /\ ssLog' = Logged(entities_integrity("Events", ssData.events, SS))
                /\ UNCHANGED ssRaised
    /\ UNCHANGED <<ssData, ssQualities, ssLocations, ssAutosave, ssSettings, ssShops,
                   ssAt, ssCheck, notSs>>

\* self.autosave = Save(ss=self, ...): Save.__init__ builds its SaveQualities;
\* then _create_settings is entered: settings = {}
load_autosave ==
    /\ ssPc = "autosave"
    /\ ssAutosave' = EntitiesFromData("SaveQualities",
                                      ssData.save.QualitiesPossessedList, SS)
    /\ ssSettings' = <<>>
    /\ ssPc' = "settings"
    /\ ssAt' = 1
    /\ UNCHANGED <<ssData, ssQualities, ssLocations, ssEvents, ssShops, ssRaised,
                   ssLog, ssCheck, notSs>>

\* _create_settings: the (aid, sid) pairs the generator yields, in order
PortData(tiles) ==
    Concat([i \in 1..Len(tiles) |->
              Concat([j \in 1..Len(tiles[i].Tiles) |->
                        [k \in 1..Len(tiles[i].Tiles[j].PortData) |->
                           [aid |-> tiles[i].Tiles[j].PortData[k].Area.Id,
                            sid |-> tiles[i].Tiles[j].PortData[k].Setting.Id]]])])

\* settings.setdefault(sid, {'locations': set()})['locations'].add(location)
settings_add(settings, sid, location) ==
    [s \in DOMAIN settings \cup {sid} |->
        (IF s \in DOMAIN settings THEN settings[s] ELSE {})
        \cup (IF s = sid THEN {location} ELSE {})]

\* _create_settings: the local areas when the loop reaches the k-th port,
\* "areas[aid] = sid" having run for each port before it
areas_before(ports, k) ==
    [aid \in {ports[j].aid : j \in 1..(k - 1)} |->
        ports[CHOOSE j \in 1..(k - 1) :
                 /\ ports[j].aid = aid
                 /\ \A m \in (j + 1)..(k - 1) : ports[m].aid # aid].sid]

\* the message of an area listed before under the setting before
NotOneToOne(port, before) ==
    Message("error", "Area is not 1:1 with Settings", "Location", port.aid,
            {before, port.sid})

\* the test of an area against its earlier setting, with areas.get(aid)
\* where the source has areas.get(aid, sid)
settings_integrity_without_default(areas, port) ==
    IF port.aid \notin DOMAIN areas \/ areas[port.aid] # port.sid
    THEN IF port.aid \notin DOMAIN areas THEN Raised("KeyError")
         ELSE [messages |-> <<NotOneToOne(port, areas[port.aid])>>]
    ELSE [messages |-> <<>>]

\* _create_settings under TEST_INTEGRITY, for one port: the message logged
\* when the area was listed before under another setting; areas[aid], which
\* the message shows, raises KeyError for an area that is not in areas
settings_integrity(areas, port) ==
    IF (IF port.aid \in DOMAIN areas THEN areas[port.aid] ELSE port.sid) # port.sid
    THEN IF port.aid \notin DOMAIN areas THEN Raised("KeyError")
         ELSE [messages |-> <<NotOneToOne(port, areas[port.aid])>>]
    ELSE [messages |-> <<>>]

\* _create_settings: the location of the k-th port, the one of
\* self.locations or a dummy made for this port
port_location(locations, port, k) ==
    IF get_ref(locations, port.aid) # None THEN get_ref(locations, port.aid)
    ELSE Own(Location([Id |-> port.aid], k))

\* _create_settings: one iteration of the loop, on self.locations and the
\* local settings
settings_step(locations, settings, port, k) ==
    LET location == port_location(locations, port, k)
    IN  [locations |-> IF location.kind = "ref"
                       THEN [locations EXCEPT
                               !.order[location.at].setting = port.sid]
                       ELSE locations,
         settings  |-> settings_add(settings, port.sid, location)]

\* _create_settings: the loop from the k-th port on, and what it leaves in
\* self.locations and settings
RECURSIVE settings_loop(_, _, _, _)
settings_loop(locations, settings, ports, k) ==
    IF k > Len(ports) THEN [locations |-> locations, settings |-> settings]
    ELSE LET step == settings_step(locations, settings, ports[k], k)
         IN  settings_loop(step.locations, step.settings, ports, k + 1)

\* _create_settings: one iteration of the loop over the ports
create_settings_port ==
    /\ ssPc = "settings"
    /\ ssAt <= Len(PortData(ssData.tiles))
    /\ LET ports   == PortData(ssData.tiles)
           port    == ports[ssAt]
           checked == IF ssCheck
                      THEN settings_integrity(areas_before(ports, ssAt), port)
                      ELSE [messages |-> <<>>]
           step    == settings_step(ssLocations, ssSettings, port, ssAt)
       IN  IF IsRaised(checked)
           THEN /\ ssPc' = "raised"
                /\ ssRaised' = [exc |-> checked.raised, in |-> "settings"]
                /\ UNCHANGED <<ssLocations, ssSettings, ssAt, ssLog>>
           ELSE /\ ssLocations' = step.locations
                /\ ssSettings' = step.settings
                /\ ssAt' = ssAt + 1
                /\ ssLog' = Logged(checked.messages \o
                               IF port_location(ssLocations, port, ssAt).kind = "own"
                               THEN test_integrity("Location", [Id |-> port.aid], TRUE)
                               ELSE <<>>)
                /\ UNCHANGED <<ssPc, ssRaised>>
    /\ UNCHANGED <<ssData, ssQualities, ssEvents, ssAutosave, ssShops, ssCheck, notSs>>

\* the id of a location held by reference or made in place
location_id(locations, l) ==
    IF l.kind = "ref" THEN locations.order[l.at].id ELSE l.obj.id

\* the elements of a set of integers, in increasing order
RECURSIVE Sorted(_)
Sorted(S) ==
    IF S = {} THEN <<>>
    ELSE LET least == CHOOSE x \in S : \A y \in S : x <= y
         IN  <<least>> \o Sorted(S \ {least})

\* _create_settings under TEST_INTEGRITY: log.debug of each setting's locations
settings_debug(locations, settings) ==
    LET sids == Sorted(DOMAIN settings)
    IN  [i \in 1..Len(sids) |->
           Message("debug", "Locations in setting", "Setting", sids[i],
                   {location_id(locations, l) : l \in settings[sids[i]]})]

\* _create_settings: return settings
create_settings_return ==
    /\ ssPc = "settings"
    /\ ssAt > Len(PortData(ssData.tiles))
    /\ ssPc' = "shops"
    /\ ssLog' = Logged(settings_debug(ssLocations, ssSettings))
    /\ UNCHANGED <<ssData, ssQualities, ssLocations, ssEvents, ssAutosave, ssSettings,
                   ssShops, ssAt, ssRaised, ssCheck, notSs>>

\* the locations of the first setting of the exchange only
shop_locations_first_setting(exchange, settings) ==
    IF exchange.SettingIds # <<>> /\ exchange.SettingIds[1] \in DOMAIN settings
    THEN settings[exchange.SettingIds[1]]
    ELSE {}

\* _create_shop: the locations of one exchange
shop_locations(exchange, settings) ==
    UNION {settings[exchange.SettingIds[i]] :
             i \in {i \in 1..Len(exchange.SettingIds) :
                      exchange.SettingIds[i] \in DOMAIN settings}}

\* _create_shop: the data of the Shops it yields, through the exchanges
shop_data(exchanges) ==
    Concat([x \in 1..Len(exchanges) |-> exchanges[x].Shops])

\* _create_shop: the Shops it yields, numbered through the exchanges
create_shop(exchanges, settings, ss) ==
    LET shops == Concat([x \in 1..Len(exchanges) |->
                           [i \in 1..Len(exchanges[x].Shops) |->
                              [data |-> exchanges[x].Shops[i],
                               locations |-> shop_locations(exchanges[x], settings)]]])
    IN  [i \in 1..Len(shops) |-> Shop(shops[i].data, i, ss, shops[i].locations)]

\* self.shops = Shops(entities=(_ for _ in self._create_shop()), ss=self)
create_shops ==
    /\ ssPc = "shops"
    /\ ssShops' = Entities("Shops", create_shop(ssData.exchanges, ssSettings, SS))
    /\ ssLog' = Logged(entities_integrity("Shops", shop_data(ssData.exchanges), SS))
    /\ ssPc' = "triggers"
    /\ ssAt' = 1
    /\ UNCHANGED <<ssData, ssQualities, ssLocations, ssEvents, ssAutosave, ssSettings,
                   ssRaised, ssCheck, notSs>>

\* the outcomes the three nested loops visit, in order: <<event, action, outcome>>
OutcomePlaces(events) ==
    Concat([e \in 1..Len(events.order) |->
              Concat([a \in 1..Len(events.order[e].actions) |->
                        [o \in 1..Len(events.order[e].actions[a].outcomes) |->
                           <<e, a, o>>]])])

OutcomeAt(events, place) ==
    events.order[place[1]].actions[place[2]].outcomes[place[3]]

\* outcome.trigger = value
set_trigger(events, place, value) ==
    [events EXCEPT
        !.order[place[1]].actions[place[2]].outcomes[place[3]].trigger = value]

\* the outcome the loop is at
LinkPlace == OutcomePlaces(ssEvents)[ssAt]

LinkStep ==
    /\ ssPc = "triggers"
    /\ ssAt <= Len(OutcomePlaces(ssEvents))
    /\ ssAt' = ssAt + 1
    /\ UNCHANGED <<ssData, ssQualities, ssLocations, ssAutosave, ssSettings, ssShops,
                   ssCheck, notSs>>

\* "if type(trigger) is not int: continue"
link_skip ==
    /\ LinkStep
    /\ OutcomeAt(ssEvents, LinkPlace).trigger.kind # "int"
    /\ UNCHANGED <<ssEvents, ssPc, ssRaised, ssLog>>

\* outcome.trigger = self.events.get(trigger), an Event
link_found ==
    /\ LinkStep
    /\ OutcomeAt(ssEvents, LinkPlace).trigger.kind = "int"
    /\ get_ref(ssEvents, OutcomeAt(ssEvents, LinkPlace).trigger.val) # None
    /\ ssEvents' = set_trigger(ssEvents, LinkPlace,
                       get_ref(ssEvents, OutcomeAt(ssEvents, LinkPlace).trigger.val))
    /\ UNCHANGED <<ssPc, ssRaised, ssLog>>

\* Event(ss=self, data=dict(Id=trigger, ChildBranches=[], QualitiesRequired=[]))
DummyEventData(trigger) ==
    [Id |-> trigger, ChildBranches |-> <<>>, QualitiesRequired |-> <<>>]

DummyEvent(trigger) == Event(DummyEventData(trigger), 0, SS)

\* self.events.get(trigger) is None: "Create a dummy one"
link_dummy ==
    /\ LinkStep
    /\ OutcomeAt(ssEvents, LinkPlace).trigger.kind = "int"
    /\ get_ref(ssEvents, OutcomeAt(ssEvents, LinkPlace).trigger.val) = None
    /\ LET dummy == DummyEvent(OutcomeAt(ssEvents, LinkPlace).trigger.val)
       IN  IF IsRaised(dummy)
           THEN /\ ssEvents' = set_trigger(ssEvents, LinkPlace, None)
                /\ ssPc' = "raised"
                /\ ssRaised' = [exc |-> dummy.raised, in |-> "triggers"]
                /\ ssLog' = Logged(test_integrity("Event",
                                  DummyEventData(OutcomeAt(ssEvents, LinkPlace).trigger.val),
                                  TRUE))
           ELSE /\ ssEvents' = set_trigger(ssEvents, LinkPlace, Own(dummy))
                /\ ssLog' = Logged(event_integrity(
                                  DummyEventData(OutcomeAt(ssEvents, LinkPlace).trigger.val),
                                  SS))
                /\ UNCHANGED <<ssPc, ssRaised>>

\* a loop body without "if type(trigger) is not int: continue": a trigger
\* that is an object is looked up as if it were an id, and not found
link_body_without_type_test(events, place) ==
    LET trigger == OutcomeAt(events, place).trigger
    IN  IF trigger.kind = "int" /\ get_ref(events, trigger.val) # None
        THEN set_trigger(events, place, get_ref(events, trigger.val))
        ELSE set_trigger(events, place, None)

\* the body of the loops, run on events for one outcome: the events after it,
\* or the exception it raises
link_body(events, place) ==
    LET trigger == OutcomeAt(events, place).trigger
    IN  IF trigger.kind # "int" THEN events
        ELSE IF get_ref(events, trigger.val) # None
        THEN set_trigger(events, place, get_ref(events, trigger.val))
        ELSE LET dummy == DummyEvent(trigger.val)
             IN  IF IsRaised(dummy) THEN dummy
                 ELSE set_trigger(events, place, Own(dummy))

\* the loops, run on events from the k-th outcome on
RECURSIVE link_loop(_, _)
link_loop(events, k) ==
    IF IsRaised(events) THEN events
    ELSE IF k > Len(OutcomePlaces(events)) THEN events
    ELSE link_loop(link_body(events, OutcomePlaces(events)[k]), k + 1)

\* the loops are over: __init__ returns
link_return ==
    /\ ssPc = "triggers"
    /\ ssAt > Len(OutcomePlaces(ssEvents))
    /\ ssPc' = "done"
    /\ UNCHANGED <<ssData, ssQualities, ssLocations, ssEvents, ssAutosave, ssSettings,
                   ssShops, ssAt, ssRaised, ssCheck, ssLog, notSs>>

SsNext ==
    \/ load_qualities
    \/ load_locations
    \/ load_events
    \/ load_autosave
    \/ create_settings_port
    \/ create_settings_return
    \/ create_shops
    \/ link_skip
    \/ link_found
    \/ link_dummy
    \/ link_return

---------------------------------------------------------------------------
(* SunlessSea.__init__ on data whose geography varies: the areas, the      *)
(* ports of the tiles, the settings of the exchanges, the areas of Events  *)

MaxPorts == 2

\* the areas of the data: area 3 is never loaded
AreaIds == {1, 2, 3}

SettingIds == {1, 2}

Harbour == <<"H", "a", "r", "b", "o", "u", "r">>

\* areas_import.json: no area, one, two, or two records of the same id
GeoAreaData ==
    { <<>>,
      <<[Id |-> 1, Name |-> <<"P">>]>>,
      <<[Id |-> 1, Name |-> <<"P">>], [Id |-> 2, Name |-> <<"Q">>]>>,
      <<[Id |-> 1, Name |-> <<"P">>], [Id |-> 1, Name |-> <<"Q">>]>> }

\* the PortData records of a tile
GeoPorts ==
    UNION {[1..n -> [Area : [Id : AreaIds], Setting : [Id : SettingIds]]] :
             n \in 0..MaxPorts}

\* geography/Tiles_import.json: the first port on one tile, the others on a
\* tile of another record
GeoTiles(ports) ==
    << [Name  |-> <<"T">>,
        Tiles |-> << [Name |-> <<"t">>, PortData |-> IF ports = <<>> THEN <<>> ELSE <<Head(ports)>>] >>],
       [Name  |-> <<"U">>,
        Tiles |-> << [Name |-> <<"u">>, PortData |-> <<>>],
                     [Name |-> <<"v">>, PortData |-> IF ports = <<>> THEN <<>> ELSE Tail(ports)] >>] >>

\* one Shop of exchanges_import.json
GeoShop(id) ==
    [Id             |-> id,
     Name           |-> <<"S">>,
     Availabilities |-> << [Id |-> id,
                            Quality |-> [Id |-> 1],
                            PurchaseQuality |-> [Id |-> 2],
                            Cost |-> 3] >>]

\* exchanges_import.json: an exchange of two Shops whose settings vary,
\* setting 3 being one that no port has, then an exchange of setting 2
GeoExchangeData ==
    { << [SettingIds |-> sids, Shops |-> <<GeoShop(1), GeoShop(2)>>],
         [SettingIds |-> <<2>>, Shops |-> <<GeoShop(3)>>] >> :
      sids \in {<<>>, <<1>>, <<3>>, <<1, 2>>, <<2, 3, 1>>, <<1, 1>>} }

\* one record of events_import.json: an Event limited to area (0: to none),
\* with two requirements on the same Quality and one branch, of the parent
\* Event parent, whose default outcome links to Event link (0: to none)
GeoEvent(id, area, link, parent) ==
    LET req == [Id |-> 1, AssociatedQuality |-> [Id |-> 1], MinLevel |-> 1]
        eff == [Id |-> 1, AssociatedQuality |-> [Id |-> 2], Level |-> 1,
                SetToExactly |-> 2]
        out == [Id |-> id, QualitiesAffected |-> <<eff>>]
        ev  == [Id                |-> id,
                Name              |-> <<"E">>,
                QualitiesRequired |-> <<req, req>>,
                QualitiesAffected |-> <<eff>>,
                ChildBranches     |->
                   << [Id                |-> id,
                       ParentEvent       |-> [Id |-> parent],
                       QualitiesRequired |-> <<req>>,
                       DefaultEvent      |->
                          IF link = 0 THEN out
                          ELSE out @@ [LinkToEvent |-> [Id |-> link]]] >>]
    IN  IF area = 0 THEN ev
        ELSE IF area = 3
        THEN ev @@ [LimitedToArea |-> [Id |-> area, Name |-> Harbour]]
        ELSE ev @@ [LimitedToArea |-> [Id |-> area]]

\* events_import.json: a link to a later Event and Events of areas 1 and 2;
\* an Event of area 3 that links to itself; a link to an Event that is not loaded
GeoEventData ==
    { <<GeoEvent(1, 1, 2, 1), GeoEvent(2, 2, 0, 1)>>,
      <<GeoEvent(1, 3, 1, 1), GeoEvent(2, 0, 0, 2)>>,
      <<GeoEvent(1, 0, 3, 1)>> }

GeoInit ==
    /\ \E ports \in GeoPorts :
          ssData \in [qualities : {GraphQualities},
                      areas     : GeoAreaData,
                      events    : GeoEventData,
                      save      : {GraphSave},
                      tiles     : {GeoTiles(ports)},
                      exchanges : GeoExchangeData]
    /\ ssCheck \in BOOLEAN
    /\ ssPc = "qualities"
    /\ SsAtRest

---------------------------------------------------------------------------
(* QualityOperator._format and Requirement._format: the rendering of       *)
(* Effects and Requirements                                                *)

\* Effect._OPS
EFFECT_OPS ==
    <<"Level", "ChangeByAdvanced", "SetToExactly", "SetToExactlyAdvanced",
      "OnlyIfAtLeast", "OnlyIfNoMoreThan">>

\* Requirement._OPS
REQUIREMENT_OPS ==
    <<"DifficultyLevel", "DifficultyAdvanced", "MinLevel", "MinAdvanced",
      "MaxLevel", "MaxAdvanced">>

\* self._OPS
OPS(self) == IF self.cls = "Effect" THEN EFFECT_OPS ELSE REQUIREMENT_OPS

\* QualityOperator._HIDE_OP
HIDE_OP ==
    {"VisibleWhenRequirementFailed", "BranchVisibleWhenRequirementFailed",
     "Priority", "ForceEquip"}

\* QualityOperator._format: the default templates
EffectFormat ==
    [ qfmt |->
        <<"{name}", "{sep}", "{ops}", "{ifsep}", "{ifs}">>,
      qfmtqty |->
        <<"{name}", " ", "+", "=", " ", "{qtyops}", "{ifsep}", "{ifs}">>,
      qfmtrev |->
        <<"{name}", " ", "+", "=", " ", "(", "{qtyops}", ")", "{ifsep}",
          "{ifs}">>,
      dfmt |->
        <<"[", "1", " ", "t", "o", " ", "{}", "]">>,
      advfmt |->
        <<"[", "{name}", "]">>,
      lvlfmt |->
        <<"{:d}">>,
      lvladvfmt |->
        <<"{}">>,
      setfmt |->
        <<"=", " ", "{}">>,
      ifminfmt |->
        <<">=", " ", "{}">>,
      ifmaxfmt |->
        <<"<=", " ", "{}">>,
      ifeqfmt |->
        <<"=", " ", "{}">>,
      ifadjfmt |->
        <<"=", " ", "{v1}", " ", "o", "r", " ", "{v2}">>,
      elsefmt |->
        <<"{op}", ":", " ", "{}">>,
      opsep |->
        <<" ", "a", "n", "d", " ">>,
      qtyopsep |->
        <<" ", "+", " ">>,
      ifsep |->
        <<",", " ", "o", "n", "l", "y", " ", "i", "f", " ">>,
      sep |->
        <<" ">> ]

\* QualityOperator.wiki: the templates it passes to _format
EffectWiki ==
    [ qfmt |->
        <<"{", "{", "l", "i", "n", "k", " ", "i", "c", "o", "n", "|",
          "{name}", "}", "}", "{sep}", "{ops}", "{ifsep}", "{ifs}">>,
      qfmtqty |->
        <<"{", "{", "l", "i", "n", "k", " ", "q", "t", "y", "|",
          "{qtyops}", "|", "{name}", "}", "}", "{ifsep}", "{ifs}">>,
      qfmtrev |->
        <<"{", "{", "l", "i", "n", "k", " ", "q", "t", "y", "|",
          "{qtyops}", "|", "{name}", "|", "|", "*", "}", "}", "{ifsep}",
          "{ifs}">>,
      dfmt |->
        <<"[", "1", " ", "t", "o", " ", "{}", "]">>,
      advfmt |->
        <<"(", "[", "[", "{name}", "]", "]", ")">>,
      lvlfmt |->
        <<"{:+d}">>,
      lvladvfmt |->
        <<"+", "{}">>,
      setfmt |->
        <<"=", " ", "{}">>,
      ifminfmt |->
        <<">=", " ", "{}">>,
      ifmaxfmt |->
        <<"<=", " ", "{}">>,
      ifeqfmt |->
        <<"=", " ", "{}">>,
      ifadjfmt |->
        <<"=", " ", "{v1}", " ", "o", "r", " ", "{v2}">>,
      elsefmt |->
        <<"{op}", ":", " ", "{}">>,
      opsep |->
        <<" ", "a", "n", "d", " ">>,
      qtyopsep |->
        <<" ", "+", " ">>,
      ifsep |->
        <<",", " ", "o", "n", "l", "y", " ", "i", "f", " ">>,
      sep |->
        <<" ">> ]

\* Requirement._format: the default templates
RequirementFormat ==
    [ fmt |->
        <<"{quality}", "{sep}", "{ops}">>,
      fmtcha |->
        <<"{quality}", " ", "c", "h", "a", "l", "l", "e", "n", "g", "e",
          " ", "(", "{}", " ", "f", "o", "r", " ", "1", "0", "0", "%", ")",
          "{opsep}", "{ops}">>,
      fmtchaluck |->
        <<"{quality}", " ", "c", "h", "a", "l", "l", "e", "n", "g", "e",
          " ", "(", "{}", "%", ")", "{opsep}", "{ops}">>,
      fmtchaadv |->
        <<"{quality}", " ", "c", "h", "a", "l", "l", "e", "n", "g", "e",
          ":", " ", "(", "{}", ")", "*", "1", "0", "0", "/",
          "{quality.difficultyscaler}", "{opsep}", "{ops}">>,
      sep |->
        <<" ">>,
      opsep |->
        <<" ", "a", "n", "d", " ">>,
      advfmtd |->
        <<"[", "1", " ", "t", "o", " ", "{}", "]">>,
      advfmtq |->
        <<"[", "{quality}", "]">>,
      minfmt |->
        <<">=", " ", "{}">>,
      maxfmt |->
        <<"<=", " ", "{}">>,
      eqfmt |->
        <<"=", " ", "{}">>,
      adjfmt |->
        <<"=", " ", "{v1}", " ", "o", "r", " ", "{v2}">>,
      elsefmt |->
        <<"{op}", ":", " ", "{}">> ]

\* Requirement.wiki: the templates it passes to _format
RequirementWiki ==
    [ fmt |->
        <<"{", "{", "l", "i", "n", "k", " ", "i", "c", "o", "n", "|",
          "{quality.name}", "}", "}", "{sep}", "{ops}">>,
      fmtcha |->
        <<"{", "{", "c", "h", "a", "l", "l", "e", "n", "g", "e", "|",
          "{quality.name}", "|", "{}", "}", "}", "{opsep}", "{ops}">>,
      fmtchaluck |->
        <<"{", "{", "l", "i", "n", "k", " ", "i", "c", "o", "n", "|",
          "{quality.name}", "}", "}", " ", "c", "h", "a", "l", "l", "e",
          "n", "g", "e", " ", "(", "{", "{", "a", "c", "t", "i", "o", "n",
          "|", "{}", "%", "}", "}", " ", "c", "h", "a", "n", "c", "e", " ",
          "t", "o", " ", "w", "i", "n", ")", "{opsep}", "{ops}">>,
      fmtchaadv |->
        <<"{", "{", "l", "i", "n", "k", " ", "i", "c", "o", "n", "|",
          "{quality.name}", "}", "}", " ", "{ops}", "{opsep}", "c", "h",
          "a", "l", "l", "e", "n", "g", "e", ",", " ", "f", "o", "r", " ",
          "1", "0", "0", "%", ":", "<", "b", "r", ">", "\n", ":", "<", "s",
          "p", "a", "n", " ", "s", "t", "y", "l", "e", "=", "\"", "c", "o",
          "l", "o", "r", ":", " ", "t", "e", "a", "l", ";", "\"", ">", "[",
          "{}", "]", "*", "1", "0", "0", "/", "{quality.difficultyscaler}",
          "<", "/", "s", "p", "a", "n", ">">>,
      sep |->
        <<" ">>,
      opsep |->
        <<" ", "a", "n", "d", " ">>,
      advfmtd |->
        <<"[", "1", " ", "t", "o", " ", "{}", "]">>,
      advfmtq |->
        <<"(", "[", "[", "{quality.name}", "]", "]", ")">>,
      minfmt |->
        <<">=", " ", "{}">>,
      maxfmt |->
        <<"<=", " ", "{}">>,
      eqfmt |->
        <<"=", " ", "{}">>,
      adjfmt |->
        <<"=", " ", "{v1}", " ", "o", "r", " ", "{v2}">>,
      elsefmt |->
        <<"{op}", ":", " ", "{}">> ]

\* in the templates ">=" and "<=" are the single characters U+2265 and U+2264

\* the value variable of _format: not yet assigned, an int, or a text
Unbound == [kind |-> "Unbound"]

IntValue(n) == [int |-> n]

TextValue(t) == [text |-> t]

\* an operator code whose value is a text of the interpreter
IsAdvanced(op) ==
    op \in {"ChangeByAdvanced", "SetToExactlyAdvanced", "DifficultyAdvanced",
            "MinAdvanced", "MaxAdvanced"}

\* value = ops[op]
ValueOf(ops, op) == IF IsAdvanced(op) THEN TextValue(ops[op]) ELSE IntValue(ops[op])

\* "{}".format(value)
format_value(value) ==
    IF "int" \in DOMAIN value THEN format_d(value.int)
    ELSE IF "text" \in DOMAIN value THEN value.text
    ELSE NoText

\* ops: the operators of self that are not hidden
visible_ops(self) ==
    [op \in DOMAIN self.operator \ HIDE_OP |-> self.operator[op]]

\* ops.pop(op)
pop(ops, op) == [o \in DOMAIN ops \ {op} |-> ops[o]]

\* self._parse_adv(text, qfmt, dfmt), the other templates left at their defaults
parse_adv_with(text, qfmt, dfmt, quals) ==
    parse_adv(text, [FmtDefault EXCEPT !.qfmt = qfmt, !.dfmt = dfmt], quals)

\* int(math.ceil(100.0 * value / scaler)), scaler not 0
challenge(value, scaler) ==
    IF scaler > 0 THEN 0 - ((0 - 100 * value) \div scaler)
    ELSE 0 - ((100 * value) \div (0 - scaler))

Terror == <<"T", "e", "r", "r", "o", "r">>

Hunger == <<"H", "u", "n", "g", "e", "r">>

Menaces == <<"M", "e", "n", "a", "c", "e", "s", ":">>

\* no Quality is on a reversed scale
reverse_never(name) == FALSE

\* any(re.match(_, name) for _ in self._reverse)
reverse(name) == name = Terror \/ name = Hunger \/ IsAt(name, Menaces, 1)

\* re.sub(r"^[+-]?0+([+-])", "\g<1>", value)
re_sub_zeros(value) ==
    LET i     == IF value # <<>> /\ value[1] \in {"+", "-"} THEN 2 ELSE 1
        zeros == {n \in 1..(Len(value) - i + 1) :
                     \A k \in i..(i + n - 1) : value[k] = "0"}
        n     == IF zeros = {} THEN 0
                 ELSE CHOOSE z \in zeros : \A y \in zeros : y <= z
    IN  IF n > 0 /\ i + n <= Len(value) /\ value[i + n] \in {"+", "-"}
        THEN SubSeq(value, i + n, Len(value))
        ELSE value

\* add(fmt, value, adv, **kwargs): the text it appends
add(fmt, value, adv, kwargs, qfmt, dfmt, quals) ==
    format_kw(fmt,
              ("{}" :> (IF adv
                        THEN parse_adv_with(format_value(value), qfmt, dfmt, quals)
                        ELSE format_value(value))) @@ kwargs)

\* self._OPS[foAt], the op of the iteration
FoOp == OPS(foSelf)[foAt]

\* the for loop of a cls object is at an op
FoLoop(cls) ==
    /\ foPc = "loop"
    /\ foSelf.cls = cls
    /\ foAt <= Len(OPS(foSelf))

\* the loop is at op, and ops holds it
FoAt(cls, op) ==
    /\ FoLoop(cls)
    /\ FoOp = op
    /\ op \in DOMAIN foOps

\* the end of an iteration that appended to one list and assigned value
FoStep(ops, strs, qty, ifs, useqty, fmt, value) ==
    /\ foOps' = ops
    /\ foStrs' = strs
    /\ foQty' = qty
    /\ foIfs' = ifs
    /\ foUseqty' = useqty
    /\ foFmt' = fmt
    /\ foValue' = value
    /\ foAt' = foAt + 1
    /\ UNCHANGED <<foSelf, foQual, foArgs, foRet, foPc, notFo>>

\* if op not in ops: continue
format_continue ==
    /\ foPc = "loop"
    /\ foAt <= Len(OPS(foSelf))
    /\ FoOp \notin DOMAIN foOps
    /\ foAt' = foAt + 1
    /\ UNCHANGED <<foSelf, foQual, foArgs, foOps, foStrs, foQty, foIfs, foUseqty,
                   foFmt, foValue, foRet, foPc, notFo>>

\* the category of the Quality "Luck"
Luck == 2000

\* the keyword templates of Requirement's add()
ReqAdd(fmt, value, adv, kwargs) ==
    add(fmt, value, adv, kwargs, foArgs.advfmtq, foArgs.advfmtd, foQual)

ReqStep(ops, strs, fmt, value) ==
    FoStep(ops, strs, foQty, foIfs, foUseqty, fmt, value)

\* op == 'DifficultyLevel'
req_difficulty_level ==
    /\ FoAt("Requirement", "DifficultyLevel")
    /\ LET value  == foOps.DifficultyLevel
           scaler == foSelf.quality.difficultyscaler
       IN  IF foSelf.quality.category = Luck
           THEN ReqStep(foOps, foStrs, foArgs.fmtchaluck,
                        IntValue(50 - value * scaler))
           ELSE ReqStep(foOps, foStrs, foArgs.fmtcha,
                        IntValue(IF value # 0 /\ scaler # 0
                                 THEN challenge(value, scaler)
                                 ELSE value))

\* op == 'DifficultyAdvanced'
req_difficulty_advanced ==
    /\ FoAt("Requirement", "DifficultyAdvanced")
    /\ ReqStep(foOps, foStrs, foArgs.fmtchaadv,
               TextValue(parse_adv_with(foOps.DifficultyAdvanced,
                                        foArgs.advfmtq, foArgs.advfmtd, foQual)))

\* MinLevel without the look-ahead for an equal MaxLevel
req_min_level_no_equal ==
    /\ FoAt("Requirement", "MinLevel")
    /\ LET value == foOps.MinLevel
       IN  IF "MaxLevel" \in DOMAIN foOps /\ foOps.MaxLevel = value + 1
           THEN ReqStep(pop(foOps, "MaxLevel"),
                        Append(foStrs,
                               ReqAdd(foArgs.adjfmt, None, FALSE,
                                      ("{v1}" :> format_d(value)) @@
                                      ("{v2}" :> format_d(value + 1)))),
                        foFmt, IntValue(value))
           ELSE ReqStep(foOps,
                        Append(foStrs, ReqAdd(foArgs.minfmt, IntValue(value),
                                              FALSE, <<>>)),
                        foFmt, IntValue(value))

\* MinLevel without the look-ahead for an adjacent MaxLevel
req_min_level_no_adjacent ==
    /\ FoAt("Requirement", "MinLevel")
    /\ LET value == foOps.MinLevel
       IN  IF "MaxLevel" \in DOMAIN foOps /\ foOps.MaxLevel = value
           THEN ReqStep(pop(foOps, "MaxLevel"),
                        Append(foStrs, ReqAdd(foArgs.eqfmt, IntValue(value),
                                              FALSE, <<>>)),
                        foFmt, IntValue(value))
           ELSE ReqStep(foOps,
                        Append(foStrs, ReqAdd(foArgs.minfmt, IntValue(value),
                                              FALSE, <<>>)),
                        foFmt, IntValue(value))

\* op == 'MinLevel': look-ahead for MaxLevel
req_min_level ==
    /\ FoAt("Requirement", "MinLevel")
    /\ LET value == foOps.MinLevel
           val   == IF "MaxLevel" \in DOMAIN foOps
                    THEN IntValue(foOps.MaxLevel) ELSE None
       IN  IF val = IntValue(value)
           THEN ReqStep(pop(foOps, "MaxLevel"),
                        Append(foStrs, ReqAdd(foArgs.eqfmt, IntValue(value),
                                              FALSE, <<>>)),
                        foFmt, IntValue(value))
           ELSE IF val = IntValue(value + 1)
           THEN ReqStep(pop(foOps, "MaxLevel"),
                        Append(foStrs,
                               ReqAdd(foArgs.adjfmt, None, FALSE,
                                      ("{v1}" :> format_d(value)) @@
                                      ("{v2}" :> format_d(value + 1)))),
                        foFmt, IntValue(value))
           ELSE ReqStep(foOps,
                        Append(foStrs, ReqAdd(foArgs.minfmt, IntValue(value),
                                              FALSE, <<>>)),
                        foFmt, IntValue(value))

\* op == 'MinAdvanced': look-ahead for an equal MaxAdvanced
req_min_advanced ==
    /\ FoAt("Requirement", "MinAdvanced")
    /\ LET value == TextValue(foOps.MinAdvanced)
       IN  IF "MaxAdvanced" \in DOMAIN foOps /\ foOps.MaxAdvanced = foOps.MinAdvanced
           THEN ReqStep(pop(foOps, "MaxAdvanced"),
                        Append(foStrs, ReqAdd(foArgs.eqfmt, value, TRUE, <<>>)),
                        foFmt, value)
           ELSE ReqStep(foOps,
                        Append(foStrs, ReqAdd(foArgs.minfmt, value, TRUE, <<>>)),
                        foFmt, value)

\* op == 'MaxLevel'
req_max_level ==
    /\ FoAt("Requirement", "MaxLevel")
    /\ ReqStep(foOps,
               Append(foStrs, ReqAdd(foArgs.maxfmt, IntValue(foOps.MaxLevel),
                                     FALSE, <<>>)),
               foFmt, IntValue(foOps.MaxLevel))

\* op == 'MaxAdvanced'
req_max_advanced ==
    /\ FoAt("Requirement", "MaxAdvanced")
    /\ ReqStep(foOps,
               Append(foStrs, ReqAdd(foArgs.maxfmt, TextValue(foOps.MaxAdvanced),
                                     TRUE, <<>>)),
               foFmt, TextValue(foOps.MaxAdvanced))

\* the loop of a cls object is over
FoAtReturn(cls) ==
    /\ foPc = "loop"
    /\ foSelf.cls = cls
    /\ foAt > Len(OPS(foSelf))

FoReturn(ret, pc) ==
    /\ foRet' = ret
    /\ foPc' = pc
    /\ UNCHANGED <<foSelf, foQual, foArgs, foOps, foAt, foStrs, foQty, foIfs,
                   foUseqty, foFmt, foValue, notFo>>

\* return fmt.format(value, quality=self.quality, ...)
req_return ==
    /\ FoAtReturn("Requirement")
    /\ foValue # Unbound
    /\ FoReturn(format_kw(foFmt,
                    ("{}" :> format_value(foValue)) @@
                    ("{quality}" :> unicode(foSelf.quality)) @@
                    ("{quality.name}" :> foSelf.quality.name) @@
                    ("{quality.difficultyscaler}" :>
                        format_d(foSelf.quality.difficultyscaler)) @@
                    ("{sep}" :> iif(foStrs, foArgs.sep)) @@
                    ("{opsep}" :> iif(foStrs, foArgs.opsep)) @@
                    ("{ops}" :> join(foArgs.opsep, foStrs))),
                "done")

\* the same return when no iteration has assigned value
req_return_unbound ==
    /\ FoAtReturn("Requirement")
    /\ foValue = Unbound
    /\ FoReturn(Raised("UnboundLocalError"), "raised")

\* the keyword templates of QualityOperator's add()
EffAdd(fmt, value, adv, kwargs) ==
    add(fmt, value, adv, kwargs, foArgs.advfmt, foArgs.dfmt, foQual)

\* OnlyIfAtLeast without the look-ahead
eff_only_if_at_least_no_merge ==
    /\ FoAt("Effect", "OnlyIfAtLeast")
    /\ FoStep(foOps, foStrs, foQty,
              Append(foIfs, format_kw(foArgs.ifminfmt,
                                      "{}" :> format_d(foOps.OnlyIfAtLeast))),
              foUseqty, foFmt, IntValue(foOps.OnlyIfAtLeast))

\* op == 'OnlyIfAtLeast': look-ahead for OnlyIfNoMoreThan
eff_only_if_at_least ==
    /\ FoAt("Effect", "OnlyIfAtLeast")
    /\ LET value == foOps.OnlyIfAtLeast
           val   == IF "OnlyIfNoMoreThan" \in DOMAIN foOps
                    THEN IntValue(foOps.OnlyIfNoMoreThan) ELSE None
       IN  IF val = IntValue(value)
           THEN FoStep(pop(foOps, "OnlyIfNoMoreThan"), foStrs, foQty,
                       Append(foIfs, format_kw(foArgs.ifeqfmt,
                                               "{}" :> format_d(value))),
                       foUseqty, foFmt, IntValue(value))
           ELSE IF val = IntValue(value + 1)
           THEN FoStep(pop(foOps, "OnlyIfNoMoreThan"), foStrs, foQty,
                       Append(foIfs, format_kw(foArgs.ifadjfmt,
                                               ("{v1}" :> format_d(value)) @@
                                               ("{v2}" :> format_d(value + 1)))),
                       foUseqty, foFmt, IntValue(value))
           ELSE FoStep(foOps, foStrs, foQty,
                       Append(foIfs, format_kw(foArgs.ifminfmt,
                                               "{}" :> format_d(value))),
                       foUseqty, foFmt, IntValue(value))

\* op == 'OnlyIfNoMoreThan'
eff_only_if_no_more_than ==
    /\ FoAt("Effect", "OnlyIfNoMoreThan")
    /\ FoStep(foOps, foStrs, foQty,
              Append(foIfs, format_kw(foArgs.ifmaxfmt,
                                      "{}" :> format_d(foOps.OnlyIfNoMoreThan))),
              foUseqty, foFmt, IntValue(foOps.OnlyIfNoMoreThan))

\* op == 'Level'
eff_level ==
    /\ FoAt("Effect", "Level")
    /\ FoStep(foOps, foStrs,
              Append(foQty, format_kw(foArgs.lvlfmt,
                                      ("{:d}" :> format_d(foOps.Level)) @@
                                      ("{:+d}" :> format_plus_d(foOps.Level)))),
              foIfs, TRUE, foFmt, IntValue(foOps.Level))

\* op == 'ChangeByAdvanced'
eff_change_by_advanced ==
    /\ FoAt("Effect", "ChangeByAdvanced")
    /\ LET sub == re_sub_zeros(foOps.ChangeByAdvanced)
           val == IF sub # <<>> /\ sub[1] \notin {"+", "-"}
                  THEN format_kw(foArgs.lvladvfmt, "{}" :> sub)
                  ELSE sub
       IN  FoStep(foOps, foStrs,
                  Append(foQty, parse_adv_with(val, foArgs.advfmt, foArgs.dfmt,
                                               foQual)),
                  foIfs, TRUE, foFmt, TextValue(foOps.ChangeByAdvanced))

\* op == 'SetToExactly'
eff_set_to_exactly ==
    /\ FoAt("Effect", "SetToExactly")
    /\ FoStep(foOps,
              Append(foStrs, EffAdd(foArgs.setfmt, IntValue(foOps.SetToExactly),
                                    FALSE, <<>>)),
              foQty, foIfs, foUseqty, foFmt, IntValue(foOps.SetToExactly))

\* op == 'SetToExactlyAdvanced'
eff_set_to_exactly_advanced ==
    /\ FoAt("Effect", "SetToExactlyAdvanced")
    /\ FoStep(foOps,
              Append(foStrs, EffAdd(foArgs.setfmt,
                                    TextValue(foOps.SetToExactlyAdvanced),
                                    TRUE, <<>>)),
              foQty, foIfs, foUseqty, foFmt,
              TextValue(foOps.SetToExactlyAdvanced))

\* if useqty: qfmt = qfmtrev or qfmtqty
eff_qfmt ==
    IF foUseqty
    THEN (IF reverse(foSelf.quality.name) THEN foArgs.qfmtrev ELSE foArgs.qfmtqty)
    ELSE foFmt

\* return format_obj(qfmt, self.quality, sep=..., ...)
eff_return ==
    /\ FoAtReturn("Effect")
    /\ FoReturn(format_kw(eff_qfmt,
                    ("{name}" :> foSelf.quality.name) @@
                    ("{sep}" :> iif(foStrs, foArgs.sep)) @@
                    ("{ifsep}" :> iif(foIfs, foArgs.ifsep)) @@
                    ("{ifs}" :> join(foArgs.opsep, foIfs)) @@
                    ("{ops}" :> join(foArgs.opsep, foStrs)) @@
                    ("{qtyops}" :> join(foArgs.qtyopsep, foQty))),
                "done")

---------------------------------------------------------------------------
(* The objects _format is called on                                        *)

MaxValue == 2

\* the values of the operators that hold a level
Levels == 0..MaxValue

Scalers == {0, 3}

Mirrors == <<"M", "i", "r", "r", "o", "r", "s">>

\* the Quality an Effect is about: on a reversed scale or not
EffectQualityData ==
    {[Id |-> 1, Name |-> name] :
        name \in {Terror, Hunger, Menaces \o <<" ", "W">>, Mirrors,
                  Hunger \o <<"s">>}}

\* the Quality a Requirement is about: with or without a name, luck or not
RequirementQualityData ==
    {[Id |-> 1, Name |-> name, Category |-> category, DifficultyScaler |-> scaler] :
        name \in {Dice, <<>>}, category \in {0, Luck}, scaler \in Scalers}

\* one key of a data record that may be absent
Optional(key, values) == {<<>>} \cup {key :> v : v \in values}

AdvancedValues == {<<"2">>, <<"[", "q", ":", "1", "]">>}

\* keys that are no operator of the class: none, a hidden one, an unknown one
OtherKeys == {<<>>, "Priority" :> 1, "Unlisted" :> 1}

EffectData ==
    {[Id |-> 1, AssociatedQuality |-> [Id |-> 1]] @@ a @@ b @@ c @@ d @@ e @@ f @@ g :
        a \in Optional("Level", (0 - MaxValue)..MaxValue),
        b \in Optional("ChangeByAdvanced",
                       AdvancedValues \cup {<<"0", "+">> \o v : v \in AdvancedValues}),
        c \in Optional("SetToExactly", {MaxValue}),
        d \in Optional("SetToExactlyAdvanced", {<<"[", "q", ":", "1", "]">>}),
        e \in Optional("OnlyIfAtLeast", Levels),
        f \in Optional("OnlyIfNoMoreThan", Levels),
        g \in OtherKeys}

RequirementData ==
    {[Id |-> 1, AssociatedQuality |-> [Id |-> 1]] @@ a @@ b @@ c @@ d @@ e @@ f @@ g :
        a \in Optional("DifficultyLevel", Levels),
        b \in Optional("DifficultyAdvanced", {<<"[", "q", ":", "1", "]">>}),
        c \in Optional("MinLevel", Levels),
        d \in Optional("MinAdvanced", AdvancedValues),
        e \in Optional("MaxLevel", Levels),
        f \in Optional("MaxAdvanced", {<<"2">>}),
        g \in OtherKeys}

\* self._format() of a cls object built from data for a Quality built from qdata
FoCall(cls, qdata, data, args) ==
    /\ foQual = EntitiesFromData("Qualities", <<qdata>>, None)
    /\ foSelf = QualityOperator(cls, data, 1, [qualities |-> foQual])
    /\ foArgs = args
    /\ foOps = visible_ops(foSelf)
    /\ foAt = 1
    /\ foStrs = <<>>
    /\ foQty = <<>>
    /\ foIfs = <<>>
    /\ foUseqty = FALSE
    /\ foFmt = IF cls = "Effect" THEN args.qfmt ELSE args.fmt
    /\ foValue = Unbound
    /\ foRet = None
    /\ foPc = "loop"

FoInit ==
    \/ \E qdata \in EffectQualityData, data \in EffectData,
          args \in {EffectFormat, EffectWiki} :
            FoCall("Effect", qdata, data, args)
    \/ \E qdata \in RequirementQualityData, data \in RequirementData,
          args \in {RequirementFormat, RequirementWiki} :
            FoCall("Requirement", qdata, data, args)

FoNext ==
    \/ format_continue
    \/ eff_level
    \/ eff_change_by_advanced
    \/ eff_set_to_exactly
    \/ eff_set_to_exactly_advanced
    \/ eff_only_if_at_least
    \/ eff_only_if_no_more_than
    \/ eff_return
    \/ req_difficulty_level
    \/ req_difficulty_advanced
    \/ req_min_level
    \/ req_min_advanced
    \/ req_max_level
    \/ req_max_advanced
    \/ req_return
    \/ req_return_unbound

---------------------------------------------------------------------------
(* Action.__init__ on a record of its own: the outcome slots it holds and  *)
(* the order of its keys vary                                              *)

\* the keys of an Action record that vary: the outcome slots
ActionKeys ==
    {"DefaultEvent", "RareDefaultEvent", "SuccessEvent", "RareSuccessEvent"}

\* the value of a key of the record; the Id of an outcome tells its slot
ActionValue(key) ==
    CASE key = "Id"                -> 1
      [] key = "QualitiesRequired" -> <<>>
      [] key = "DefaultEvent"      -> [Id |-> 10, QualitiesAffected |-> <<>>]
      [] key = "RareDefaultEvent"  -> [Id |-> 20, QualitiesAffected |-> <<>>]
      [] key = "SuccessEvent"      -> [Id |-> 30, QualitiesAffected |-> <<>>]
      [] key = "RareSuccessEvent"  -> [Id |-> 40, QualitiesAffected |-> <<>>]

\* the keys in some order, none twice
KeyOrders(keys) ==
    {order \in [1..Cardinality(keys) -> keys] :
        \A i, j \in 1..Cardinality(keys) : order[i] = order[j] => i = j}

\* the record of a JSON object with these keys in this order
dict(pairs) ==
    [key \in {pairs[i][1] : i \in 1..Len(pairs)} |->
        pairs[CHOOSE i \in 1..Len(pairs) :
                 /\ pairs[i][1] = key
                 /\ \A j \in (i + 1)..Len(pairs) : pairs[j][1] # key][2]]

AcInit ==
    /\ \E slots \in SUBSET ActionKeys :
         \E order \in KeyOrders(slots \cup {"Id", "QualitiesRequired"}) :
            acData = [i \in 1..Len(order) |-> <<order[i], ActionValue(order[i])>>]
    /\ acSelf = None
    /\ acPc = "call"

\* Action(data=..., idx=1)
action_init ==
    /\ acPc = "call"
    /\ acSelf' = Action(dict(acData), 1, None)
    /\ acPc' = "built"
    /\ UNCHANGED <<acData, notAc>>

AcNext ==
    \/ action_init

---------------------------------------------------------------------------
(* Save and SaveQuality: a value that is set is written to the data of     *)
(* the save                                                                *)

\* a float, by its tenths
FloatValue(tenths) == [tenths |-> tenths]

\* int(value) of a string: surrounding spaces and a sign are accepted, then
\* digits only
int_text(t) ==
    LET stripped == strip(t)
        signed   == stripped # <<>> /\ Head(stripped) \in {"+", "-"}
        digits   == IF signed THEN Tail(stripped) ELSE stripped
    IN  IF ~isdigit(digits) THEN Raised("ValueError")
        ELSE IF signed /\ Head(stripped) = "-" THEN [int |-> 0 - int(digits)]
        ELSE [int |-> int(digits)]

\* int(value): of an int the int, of a float its integral part, of a string
\* the number it writes, or ValueError
int_value(value) ==
    IF "int" \in DOMAIN value THEN value
    ELSE IF "tenths" \in DOMAIN value
    THEN IF value.tenths < 0 THEN [int |-> 0 - ((0 - value.tenths) \div 10)]
         ELSE [int |-> value.tenths \div 10]
    ELSE int_text(value.text)

\* SaveQuality.value, the property: self._data['Level']
value_getter(save, self) == save.QualitiesPossessedList[self.idx].Level

\* SaveQuality.dump: self._data
savequality_dump(save, self) == save.QualitiesPossessedList[self.idx]

\* Save.dump: self._data
save_dump(save) == save

\* a setter that writes to a record of its own, not to the one of the save
value_setter_on_copy(save, self, level) == save

\* SaveQuality.value, the setter: self._data['Level'] = level, in the record
\* that the save holds
value_setter(save, self, level) ==
    [save EXCEPT !.QualitiesPossessedList[self.idx].Level = level]

\* the records of QualitiesPossessedList in Autosave.json
SaveRecords ==
    [AssociatedQualityId    : {1, 3},
     Level                  : {0, 5},
     EffectiveLevelModifier : {0, 1}]

\* the values given to the setter
SetValues ==
    {IntValue(7), IntValue(0), FloatValue(25), FloatValue(0 - 25),
     TextValue(<<"1", "2">>), TextValue(<<" ", "-", "3">>), TextValue(<<"x">>),
     TextValue(<<>>)}

\* Save.__init__ on the data of a save of two qualities
SvInit ==
    /\ svData \in [QualitiesPossessedList : [1..2 -> SaveRecords]]
    /\ svQualities =
          EntitiesFromData("SaveQualities", svData.QualitiesPossessedList,
             [qualities |-> EntitiesFromData("Qualities", GraphQualities, None)])
    /\ svCall = None
    /\ svRet = None
    /\ svPc = "built"

\* savequality.value = value, for one SaveQuality of the save
set_value ==
    /\ svPc = "built"
    /\ \E k \in 1..Len(svQualities.order), value \in SetValues :
          /\ svCall' = [self |-> k, value |-> value]
          /\ LET level == int_value(value)
             IN  IF IsRaised(level)
                 THEN /\ svRet' = level
                      /\ UNCHANGED svData
                 ELSE /\ svRet' = None
                      /\ svData' = value_setter(svData, svQualities.order[k],
                                                level.int)
    /\ svPc' = "set"
    /\ UNCHANGED <<svQualities, notSv>>

SvNext ==
    \/ set_value

---------------------------------------------------------------------------
(* Quality.usage: the events, actions, outcomes and shop items that a      *)
(* Quality appears in, as the loops collect them in results                *)

\* "for x in qualops: if x.quality.id == qid: ...; break": the place the
\* loop breaks at, or 0 when it runs to its end
first_match(qualops, qid) ==
    IF \E i \in 1..Len(qualops) : qualops[i].quality.id = qid
    THEN CHOOSE i \in 1..Len(qualops) :
            /\ qualops[i].quality.id = qid
            /\ \A j \in 1..(i - 1) : qualops[j].quality.id # qid
    ELSE 0

\* the loop variable after such a loop: the item of the break, the last item
\* of a list gone through, or what it was before a loop over an empty list
after_loop(x, qualops, qid) ==
    IF first_match(qualops, qid) # 0 THEN qualops[first_match(qualops, qid)]
    ELSE IF qualops # <<>> THEN qualops[Len(qualops)]
    ELSE x

\* the item the loop has stored in results, or None
matched(qualops, qid) ==
    IF first_match(qualops, qid) # 0 THEN qualops[first_match(qualops, qid)]
    ELSE None

\* "for f in e.effects: if r.quality.id == qid: ...['eff'] = f; break": the
\* test reads r, which the loop over the requirements has left
usage_effect(e, qid, r) ==
    IF e.effects = <<>> THEN [eff |-> None]
    ELSE IF r = Unbound THEN Raised("UnboundLocalError")
    ELSE IF r.quality.id = qid THEN [eff |-> e.effects[1]]
    ELSE [eff |-> None]

\* the loop over e.actions: for each action its requirement on the Quality
\* and the outcomes that have an effect on it; only the actions that have
\* either are in results
usage_actions(e, qid) ==
    LET found == [a \in 1..Len(e.actions) |->
                    [req |-> matched(e.actions[a].requirements, qid),
                     out |-> SelectSeq(e.actions[a].outcomes,
                                LAMBDA o : first_match(o.effects, qid) # 0)]]
    IN  [a \in {a \in 1..Len(e.actions) :
                  found[a].req # None \/ found[a].out # <<>>} |-> found[a]]

\* r after the loop over e.actions, from the k-th action on
RECURSIVE after_actions(_, _, _, _)
after_actions(r, actions, k, qid) ==
    IF k > Len(actions) THEN r
    ELSE after_actions(after_loop(r, actions[k].requirements, qid), actions,
                       k + 1, qid)

\* the body of "for e in self.ss.events", entered with the local r: what it
\* puts in results for e (None: nothing), and r after it
usage_event(e, qid, r) ==
    LET r1  == after_loop(r, e.requirements, qid)
        req == matched(e.requirements, qid)
        eff == usage_effect(e, qid, r1)
        act == usage_actions(e, qid)
    IN  IF IsRaised(eff) THEN eff
        ELSE [r     |-> after_actions(r1, e.actions, 1, qid),
              entry |-> IF req = None /\ eff.eff = None /\ DOMAIN act = {}
                        THEN None
                        ELSE [req |-> req, eff |-> eff.eff, act |-> act]]

\* "for e in self.ss.events", from the k-th Event on: results, by the place
\* of the Event, or the exception raised
RECURSIVE usage_events(_, _, _, _, _)
usage_events(events, k, qid, r, results) ==
    IF k > Len(events) THEN [results |-> results]
    ELSE LET body == usage_event(events[k], qid, r)
         IN  IF IsRaised(body) THEN body
             ELSE usage_events(events, k + 1, qid, body.r,
                     IF body.entry = None THEN results
                     ELSE [j \in DOMAIN results \cup {k} |->
                             IF j = k THEN body.entry ELSE results[j]])

\* "for s in self.ss.shops: for i in s.items: if qid in (i.item.id,
\* i.currency.id)": results, by the place of the Shop, or AttributeError when
\* item or currency is None
usage_shops(shops, qid) ==
    IF \E s \in 1..Len(shops) : \E i \in 1..Len(shops[s].items) :
          shops[s].items[i].item = None \/ shops[s].items[i].currency = None
    THEN Raised("AttributeError")
    ELSE LET found == [s \in 1..Len(shops) |->
                         SelectSeq(shops[s].items,
                            LAMBDA i : qid \in {i.item.id, i.currency.id})]
         IN  [results |->
                [s \in {s \in 1..Len(shops) : found[s] # <<>>} |-> found[s]]]

\* Quality.usage, up to the results it prints
usage(self, events, shops) ==
    LET of_events == usage_events(iter(events), 1, self.id, Unbound, <<>>)
    IN  IF IsRaised(of_events) THEN of_events
        ELSE IF IsRaised(usage_shops(iter(shops), self.id))
        THEN usage_shops(iter(shops), self.id)
        ELSE [events |-> of_events.results,
              shops  |-> usage_shops(iter(shops), self.id).results]

MaxUsageEvents == 2

\* the Qualities that the requirements and effects of the data are on
UsageRefs == {<<>>, <<1>>, <<2>>}

\* one record of events_import.json: requirements and effects on the
\* Qualities reqs and effs, and the branches given
UsageEvent(id, reqs, effs, branches) ==
    [Id                |-> id,
     QualitiesRequired |-> [i \in 1..Len(reqs) |->
                              [Id |-> i, AssociatedQuality |-> [Id |-> reqs[i]],
                               MinLevel |-> 1]],
     QualitiesAffected |-> [i \in 1..Len(effs) |->
                              [Id |-> i, AssociatedQuality |-> [Id |-> effs[i]],
                               Level |-> 1]],
     ChildBranches     |-> branches]

\* one branch: requirements on reqs, and a default outcome with effects on effs
UsageBranch(reqs, effs) ==
    [Id                |-> 1,
     QualitiesRequired |-> UsageEvent(1, reqs, effs, <<>>).QualitiesRequired,
     DefaultEvent      |->
        [Id |-> 1,
         QualitiesAffected |-> UsageEvent(1, reqs, effs, <<>>).QualitiesAffected]]

UsageEventRecords ==
    {UsageEvent(1, reqs, effs, branches) :
        reqs \in UsageRefs, effs \in UsageRefs,
        branches \in {<<>>} \cup
                     {<<UsageBranch(r, f)>> : r \in {<<>>, <<1>>},
                                              f \in {<<>>, <<1>>}}}

\* the data of the Shops: none, a Shop that sells Quality 1 for Quality 2,
\* a Shop that sells a Quality that is not loaded
UsageShopData ==
    { <<>>,
      <<[Id |-> 1, Availabilities |->
            <<[Id |-> 1, Quality |-> [Id |-> 1], PurchaseQuality |-> [Id |-> 2]]>>]>>,
      <<[Id |-> 1, Availabilities |->
            <<[Id |-> 1, Quality |-> [Id |-> 3], PurchaseQuality |-> [Id |-> 2]]>>]>> }

\* the SunlessSea instance of the Quality: its qualities
UsageSS == [qualities |-> EntitiesFromData("Qualities", GraphQualities, None)]

UsInit ==
    /\ usSelf \in 1..Len(iter(UsageSS.qualities))
    /\ \E data \in UNION {[1..n -> UsageEventRecords] : n \in 1..MaxUsageEvents} :
          usEvents = EntitiesFromData("Events", data, UsageSS)
    /\ \E data \in UsageShopData :
          usShops = Entities("Shops",
                       [i \in 1..Len(data) |-> Shop(data[i], i, UsageSS, {})])
    /\ usRet = None
    /\ usPc = "built"

\* quality.usage()
call_usage ==
    /\ usPc = "built"
    /\ usRet' = usage(iter(UsageSS.qualities)[usSelf], usEvents, usShops)
    /\ usPc' = "done"
    /\ UNCHANGED <<usSelf, usEvents, usShops, notUs>>

UsNext ==
    \/ call_usage

---------------------------------------------------------------------------
(* The specifications: each runs one part of the program and leaves the    *)
(* variables of the others at rest                                         *)

AdvIdle ==
    /\ advText = <<>>
    /\ advFmt = None
    /\ advQual = None
    /\ advPos = 0
    /\ advResult = <<>>
    /\ advPc = "idle"
    /\ advHits = 0
    /\ advSubs = 0

CollIdle ==
    /\ collSelf = None
    /\ collCall = None
    /\ collRet = None
    /\ collPc = "idle"

SsIdle ==
    /\ ssData = None
    /\ ssCheck = FALSE
    /\ ssPc = "idle"
    /\ SsAtRest

FoIdle ==
    /\ foSelf = None
    /\ foQual = None
    /\ foArgs = None
    /\ foOps = <<>>
    /\ foAt = 0
    /\ foStrs = <<>>
    /\ foQty = <<>>
    /\ foIfs = <<>>
    /\ foUseqty = FALSE
    /\ foFmt = <<>>
    /\ foValue = Unbound
    /\ foRet = None
    /\ foPc = "idle"

AcIdle ==
    /\ acData = <<>>
    /\ acSelf = None
    /\ acPc = "idle"

SvIdle ==
    /\ svData = None
    /\ svQualities = None
    /\ svCall = None
    /\ svRet = None
    /\ svPc = "idle"

UsIdle ==
    /\ usSelf = None
    /\ usEvents = None
    /\ usShops = None
    /\ usRet = None
    /\ usPc = "idle"

InitAdv == AdvInit /\ CollIdle /\ SsIdle /\ FoIdle /\ AcIdle /\ SvIdle /\ UsIdle

InitColl == CollInit /\ AdvIdle /\ SsIdle /\ FoIdle /\ AcIdle /\ SvIdle /\ UsIdle

InitGraph == GraphInit /\ AdvIdle /\ CollIdle /\ FoIdle /\ AcIdle /\ SvIdle /\ UsIdle

InitGeo == GeoInit /\ AdvIdle /\ CollIdle /\ FoIdle /\ AcIdle /\ SvIdle /\ UsIdle

InitFormat == FoInit /\ AdvIdle /\ CollIdle /\ SsIdle /\ AcIdle /\ SvIdle /\ UsIdle

InitAction == AcInit /\ AdvIdle /\ CollIdle /\ SsIdle /\ FoIdle /\ SvIdle /\ UsIdle

InitSave == SvInit /\ AdvIdle /\ CollIdle /\ SsIdle /\ FoIdle /\ AcIdle /\ UsIdle

InitUsage == UsInit /\ AdvIdle /\ CollIdle /\ SsIdle /\ FoIdle /\ AcIdle /\ SvIdle

SpecAdv == InitAdv /\ [][AdvNext]_vars

SpecColl == InitColl /\ [][CollNext]_vars

SpecGraph == InitGraph /\ [][SsNext]_vars

SpecGeo == InitGeo /\ [][SsNext]_vars

SpecFormat == InitFormat /\ [][FoNext]_vars

SpecAction == InitAction /\ [][AcNext]_vars

SpecSave == InitSave /\ [][SvNext]_vars

SpecUsage == InitUsage /\ [][UsNext]_vars

---------------------------------------------------------------------------
(* The claims about graph construction (SpecGraph)                         *)

\* the data record an outcome was built from
OutcomeData(place) ==
    ssData.events[place[1]].ChildBranches[place[2]][OutcomeAt(ssEvents, place).type]

\* the outcome's LinkToEvent.Id is the id of no loaded Event
LinksToMissingEvent(place) ==
    /\ "LinkToEvent" \in DOMAIN OutcomeData(place)
    /\ OutcomeData(place).LinkToEvent.Id \notin DOMAIN ssEvents.entities

\* C1: an Outcome whose LinkToEvent.Id is the id of no loaded Event does not
\* make construction fail, and once construction is over its trigger is an
\* Event object with that id and with no actions and no requirements.
C1_MissingTriggerBecomesPlaceholder ==
    ssEvents # None =>
        \A e \in 1..Len(ssEvents.order) :
          \A a \in 1..Len(ssEvents.order[e].actions) :
            \A o \in 1..Len(ssEvents.order[e].actions[a].outcomes) :
                LinksToMissingEvent(<<e, a, o>>) =>
                    /\ ssPc # "raised"
                    /\ ssPc = "done" =>
                         LET trigger == OutcomeAt(ssEvents, <<e, a, o>>).trigger
                         IN  /\ trigger.kind = "own"
                             /\ trigger.obj.id = OutcomeData(<<e, a, o>>).LinkToEvent.Id
                             /\ trigger.obj.actions = <<>>
                             /\ trigger.obj.requirements = <<>>

\* C2: with a non-empty Qualities container, item and currency of every
\* ShopItem are Quality objects, never None.
C2_ShopItemQualitiesNeverNone ==
    (ssShops # None /\ len(ssQualities) > 0) =>
        \A k \in 1..Len(ssShops.order) :
          \A i \in 1..Len(ssShops.order[k].items) :
            /\ ssShops.order[k].items[i].item # None
            /\ ssShops.order[k].items[i].currency # None

\* the quality attribute of an object that refers to Quality qid: the
\* container's own Quality when it holds qid, else a placeholder with that id
\* and an empty name
ResolvedQuality(quality, qid) ==
    /\ quality # None
    /\ quality.id = qid
    /\ IF qid \in DOMAIN ssQualities.entities
       THEN quality = get(ssQualities, qid, None)
       ELSE quality.name = <<>> /\ quality.idx = 0

ResolvedQualops(qualops, data) ==
    /\ Len(qualops) = Len(data)
    /\ \A i \in 1..Len(data) :
          ResolvedQuality(qualops[i].quality, data[i].AssociatedQuality.Id)

\* C3: the quality of every Requirement, Effect and SaveQuality is a Quality
\* with the referenced id, the container's own when it holds that id and a
\* placeholder with an empty name otherwise; building them never raises.
C3_QualityReferencesResolve ==
    /\ (ssPc = "raised" => ssRaised.in = "triggers")
    /\ ssEvents # None =>
         \A e \in 1..Len(ssEvents.order) :
            LET event == ssEvents.order[e]
                data  == ssData.events[e]
            IN  /\ ResolvedQualops(event.requirements, data.QualitiesRequired)
                /\ ResolvedQualops(event.effects, data.QualitiesAffected)
                /\ \A a \in 1..Len(event.actions) :
                      /\ ResolvedQualops(event.actions[a].requirements,
                                         data.ChildBranches[a].QualitiesRequired)
                      /\ \A o \in 1..Len(event.actions[a].outcomes) :
                            ResolvedQualops(event.actions[a].outcomes[o].effects,
                                            OutcomeData(<<e, a, o>>).QualitiesAffected)
    /\ ssAutosave # None =>
         /\ Len(ssAutosave.order) = Len(ssData.save.QualitiesPossessedList)
         /\ \A k \in 1..Len(ssAutosave.order) :
               ResolvedQuality(ssAutosave.order[k].quality,
                               ssData.save.QualitiesPossessedList[k].AssociatedQualityId)

\* construction is over, one Event refers to a loaded Quality and another to
\* one that is not loaded, and so does the save
C3_Witness ==
    /\ ssPc = "done"
    /\ len(ssQualities) = 1
    /\ \E e \in 1..Len(ssEvents.order) :
          ssEvents.order[e].requirements[1].quality.idx = 0
    /\ \E e \in 1..Len(ssEvents.order) :
          ssEvents.order[e].actions[1].outcomes[1].effects[1].quality.idx = 1
    /\ ssAutosave.order[1].quality.idx + ssAutosave.order[2].quality.idx = 1

---------------------------------------------------------------------------
(* The claims about the containers (SpecColl)                              *)

IsContainer(x) == "order" \in DOMAIN x

\* C4: get(e.id) returns e itself, for every entity e that iterating a
\* container yields.
C4_GetReturnsEveryIteratedEntity ==
    /\ collSelf # None =>
         \A k \in 1..Len(iter(collSelf)) :
            get(collSelf, iter(collSelf)[k].id, None) = iter(collSelf)[k]
    /\ (collPc = "done" /\ IsContainer(collRet)) =>
         \A k \in 1..Len(iter(collRet)) :
            get(collRet, iter(collRet)[k].id, None) = iter(collRet)[k]

\* pattern occurs in name when the case of the letters is ignored
NameMatches(name, pattern) ==
    \E i \in 1..(Len(name) - Len(pattern) + 1) :
        \A j \in 1..Len(pattern) :
            lower(<<name[i + j - 1]>>) = lower(<<pattern[j]>>)

\* the entities of es whose name matches, in their order in es
RECURSIVE Matching(_, _)
Matching(es, pattern) ==
    IF es = <<>> THEN <<>>
    ELSE (IF NameMatches(Head(es).name, pattern) THEN <<Head(es)>> ELSE <<>>)
         \o Matching(Tail(es), pattern)

\* C5: find("") yields the members of the container in their order;
\* find(pattern) yields a container of the same class that holds exactly the
\* entities whose name matches the pattern whatever the case, in their order.
C5_FindFiltersByName ==
    (collPc = "done" /\ collCall.op = "find") =>
        IF collCall.name = <<>>
        THEN iter(collRet) = iter(collSelf) /\ collRet.cls = collSelf.cls
        ELSE /\ IsContainer(collRet)
             /\ collRet.cls = collSelf.cls
             /\ iter(collRet) = Matching(iter(collSelf), collCall.name)

\* find("B") kept the entities named "Ab" and "b" and dropped another one
C5_Witness ==
    /\ collPc = "done"
    /\ collCall.op = "find"
    /\ collCall.name = <<"B">>
    /\ Len(iter(collSelf)) = 3
    /\ Len(iter(collRet)) = 2
    /\ iter(collRet)[1].name = <<"A", "b">>
    /\ iter(collRet)[2].name = <<"b">>

\* where list(collection)[i:j] starts and ends, counted from 0
SliceFrom(n, start) ==
    IF start = <<>> THEN 0
    ELSE IF start[1] >= n THEN n
    ELSE IF start[1] >= 0 THEN start[1]
    ELSE IF start[1] + n >= 0 THEN start[1] + n
    ELSE 0

SliceTo(n, stop) == IF stop = <<>> THEN n ELSE SliceFrom(n, stop)

\* C6: collection[i:j] is a container of the same class whose iteration
\* yields list(collection)[i:j]; collection[i] is the entity at that place,
\* not a container.
C6_SliceAndIndex ==
    /\ (collPc = "done" /\ collCall.op = "getitem_slice") =>
         LET n    == Len(iter(collSelf))
             from == SliceFrom(n, collCall.start)
             to   == SliceTo(n, collCall.stop)
         IN  /\ IsContainer(collRet)
             /\ collRet.cls = collSelf.cls
             /\ Len(iter(collRet)) = (IF to > from THEN to - from ELSE 0)
             /\ \A k \in 1..Len(iter(collRet)) :
                   iter(collRet)[k] = iter(collSelf)[from + k]
    /\ (collPc = "done" /\ collCall.op = "getitem_int") =>
         LET n == Len(iter(collSelf))
         IN  /\ (collCall.val >= 0 /\ collCall.val < n) =>
                   collRet = iter(collSelf)[collCall.val + 1]
             /\ (collCall.val < 0 /\ collCall.val + n >= 0) =>
                   collRet = iter(collSelf)[collCall.val + n + 1]
             /\ ~IsContainer(collRet)

\* collection[-2:] of three entities kept the last two
C6_Witness ==
    /\ collPc = "done"
    /\ collCall.op = "getitem_slice"
    /\ collCall.start = <<0 - 2>>
    /\ collCall.stop = <<>>
    /\ Len(iter(collSelf)) = 3
    /\ iter(collRet) = SubSeq(iter(collSelf), 2, 3)

---------------------------------------------------------------------------
(* The claims about the interpreter (SpecAdv)                              *)

\* the starts of the matches re.finditer yields from pos on
RECURSIVE finditer(_, _)
finditer(text, pos) ==
    LET s == re_adv_search(text, pos)
    IN  IF s = 0 THEN {} ELSE {s} \cup finditer(text, re_adv_match(text, s))

\* no [q:...] or [d:...] token anywhere in the text
NoRecognisedToken(text) ==
    \A s \in 1..Len(text) :
        re_adv_match(text, s) # 0 => text[s + 1] \notin {"q", "d"}

\* C7: a text without a recognised token is returned unchanged, whatever the
\* templates.
C7_NoTokenNoChange ==
    NoRecognisedToken(advText) => advResult = advText

\* the interpreter went over a token with an unknown key and returned
C7_Witness ==
    /\ advPc = "done"
    /\ advFmt = FmtBare
    /\ NoRecognisedToken(advText)
    /\ finditer(advText, 1) # {}
    /\ advResult = advText

\* the token [q:1], and its Quality when the container holds it
QualityToken == <<"[", "q", ":", "1", "]">>

\* the dice template around the quality template of Quality 1
DiceOfQuality ==
    format(advFmt.dfmt, [arg |-> format_obj(advFmt.qfmt, get(advQual, 1, None))])

Plain(text) == \A i \in 1..Len(text) : text[i] \notin {"[", "]"}

\* C8: [d:[q:ID]] with ID in the container becomes the dice template around
\* the quality template of that Quality ("[1 to [Dice]]" with the default
\* templates), and neither token is left in the output.
C8_DiceOfQuality ==
    (advPc = "done" /\ advFmt \in SourceFormats /\ len(advQual) > 0) =>
        /\ \A s \in finditer(advText, 1) :
              Match(advText, s).mstr = Nested(1, QualityToken) =>
                  /\ str_find(advResult, DiceOfQuality) # 0
                  /\ str_find(advResult, Nested(1, QualityToken)) = 0
        /\ \A i \in 0..Len(advText) :
              LET pre  == SubSeq(advText, 1, i)
                  post == SubSeq(advText, i + 10, Len(advText))
              IN  (/\ Plain(pre)
                   /\ Plain(post)
                   /\ advText = pre \o Nested(1, QualityToken) \o post) =>
                      /\ advResult = pre \o DiceOfQuality \o post
                      /\ str_find(advResult, QualityToken) = 0

\* "a[d:[q:1]]" became "a[1 to [Dice]]"
C8_Witness ==
    /\ advPc = "done"
    /\ advFmt = FmtDefault
    /\ advText = <<"a">> \o Nested(1, QualityToken)
    /\ advResult = <<"a", "[", "1", " ", "t", "o", " ", "[", "D", "i", "c", "e", "]", "]">>

\* n dice templates around the quality template of Quality 1
RECURSIVE NestedDice(_)
NestedDice(n) ==
    IF n = 0 THEN format_obj(advFmt.qfmt, get(advQual, 1, None))
    ELSE format(advFmt.dfmt, [arg |-> NestedDice(n - 1)])

\* C9 as stated: a chain of n >= 1 dice tokens around a quality token is
\* replaced as a whole, each level by its template, and no token is left.
C9_AnyNestingDepth ==
    (advPc = "done" /\ advFmt \in SourceFormats /\ len(advQual) > 0) =>
        \A n \in 1..MaxDepth :
            advText = Nested(n, QualityToken) =>
                /\ advResult = NestedDice(n)
                /\ NoRecognisedToken(advResult)

\* C9 as the code has it: one level of nesting.  [d:[q:ID]] is replaced as a
\* whole; of a longer chain only the innermost [d:[q:ID]] is matched and
\* replaced, the outer "[d:" and "]" stay where they are.
C9_OneNestingLevel ==
    (advPc = "done" /\ advFmt \in SourceFormats /\ len(advQual) > 0) =>
        \A n \in 1..MaxDepth :
            advText = Nested(n, QualityToken) =>
                /\ advResult = Nested(n - 1, DiceOfQuality)
                /\ advHits = 1

\* "[d:[d:[q:1]]]" became "[d:[1 to [Dice]]]"
C9_Witness ==
    /\ advPc = "done"
    /\ advFmt = FmtDefault
    /\ advText = Nested(2, QualityToken)
    /\ advResult = <<"[", "d", ":", "[", "1", " ", "t", "o", " ",
                     "[", "D", "i", "c", "e", "]", "]", "]">>

\* text from pos on with every match of a recognised key replaced where it is
RECURSIVE ReplacedInPlace(_, _)
ReplacedInPlace(text, pos) ==
    LET s == re_adv_search(text, pos)
    IN  IF s = 0 THEN SubSeq(text, pos, Len(text))
        ELSE LET m     == Match(text, s)
                 subst == parse_adv_subst(m, advFmt, advQual)
             IN  SubSeq(text, pos, s - 1)
                 \o (IF m.key \in {"q", "d"} THEN subst ELSE m.mstr)
                 \o ReplacedInPlace(text, m.stop)

\* C10: one pass from left to right replaces each match of a recognised key
\* once, where it is: as many substitutions as such matches, none inside
\* the text of an earlier substitution, none left out.
C10_EachMatchReplacedInPlace ==
    advPc = "done" =>
        /\ advSubs = advHits
        /\ advResult = ReplacedInPlace(advText, 1)

\* C11: a token with a key other than q and d is in the output as written,
\* and the tokens before and after it are replaced all the same.
C11_UnknownKeyLeftAsWritten ==
    advPc = "done" =>
        \A s \in finditer(advText, 1) :
            Match(advText, s).key \notin {"q", "d"} =>
                advResult =
                    ReplacedInPlace(SubSeq(advText, 1, s - 1), 1)
                    \o Match(advText, s).mstr
                    \o ReplacedInPlace(advText, Match(advText, s).stop)

---------------------------------------------------------------------------
(* The claims about the rendering of Requirements and Effects (SpecFormat) *)

\* _format of a Requirement has returned
Rendered(cls) == foPc = "done" /\ foSelf.cls = cls

Has(op) == op \in DOMAIN foSelf.operator

\* the clauses of the advanced thresholds: of MinAdvanced, and of MaxAdvanced
\* when it is not merged into it
AdvancedClauses ==
    (IF Has("MinAdvanced") THEN 1 ELSE 0) +
    (IF Has("MaxAdvanced") /\ ~(Has("MinAdvanced") /\
            foSelf.operator.MinAdvanced = foSelf.operator.MaxAdvanced)
     THEN 1 ELSE 0)

\* a clause: the template with the figure in it
Clause(fmt, n) == format_kw(fmt, "{}" :> format_d(n))

\* C12: a Requirement with MinLevel = MaxLevel = v is rendered with one
\* clause for the two levels, "= v", and with no ">= v" or "<= v" clause of
\* theirs (the only other clauses are those of the advanced thresholds);
\* MaxLevel is consumed.
C12_EqualLevelsOneClause ==
    (/\ Rendered("Requirement")
     /\ Has("MinLevel")
     /\ Has("MaxLevel")
     /\ foSelf.operator.MinLevel = foSelf.operator.MaxLevel) =>
        LET v == foSelf.operator.MinLevel
        IN  /\ "MaxLevel" \notin DOMAIN foOps
            /\ foStrs[1] = Clause(foArgs.eqfmt, v)
            /\ Len(foStrs) = 1 + AdvancedClauses
            /\ AdvancedClauses = 0 => foStrs = <<Clause(foArgs.eqfmt, v)>>
            /\ (foArgs = RequirementFormat /\ AdvancedClauses = 0
                /\ ~Has("DifficultyLevel") /\ ~Has("DifficultyAdvanced")) =>
                  foRet = unicode(foSelf.quality) \o <<" ", "=", " ">> \o format_d(v)

\* "Dice = 2" for MinLevel = MaxLevel = 2
C12_Witness ==
    /\ Rendered("Requirement")
    /\ foArgs = RequirementFormat
    /\ Has("MinLevel") /\ foSelf.operator.MinLevel = 2
    /\ Has("MaxLevel") /\ foSelf.operator.MaxLevel = 2
    /\ foRet = <<"D", "i", "c", "e", " ", "=", " ", "2">>

\* the clauses of MinLevel and MaxLevel when they are not equal
LevelClauses ==
    LET min == foSelf.operator.MinLevel
        max == foSelf.operator.MaxLevel
    IN  IF Has("MinLevel") /\ Has("MaxLevel") /\ max = min + 1
        THEN <<format_kw(foArgs.adjfmt, ("{v1}" :> format_d(min)) @@
                                        ("{v2}" :> format_d(min + 1)))>>
        ELSE (IF Has("MinLevel") THEN <<Clause(foArgs.minfmt, min)>> ELSE <<>>)
             \o (IF Has("MaxLevel") THEN <<Clause(foArgs.maxfmt, max)>> ELSE <<>>)

\* C13: MinLevel = v with MaxLevel = v + 1 gives the one clause "= v or v+1"
\* and consumes both; MinLevel = v with MaxLevel absent, or neither v nor
\* v + 1, gives ">= v", followed by "<= MaxLevel" when MaxLevel is present;
\* MaxLevel alone gives "<= MaxLevel" only.
C13_AdjacentLevelsOrThresholds ==
    (/\ Rendered("Requirement")
     /\ ~(Has("MinLevel") /\ Has("MaxLevel")
          /\ foSelf.operator.MinLevel = foSelf.operator.MaxLevel)) =>
        /\ Len(foStrs) = Len(LevelClauses) + AdvancedClauses
        /\ Has("MinLevel") => foStrs[1] = LevelClauses[1]
        /\ (Has("MinLevel") /\ Has("MaxLevel")
            /\ foSelf.operator.MaxLevel = foSelf.operator.MinLevel + 1) =>
              "MaxLevel" \notin DOMAIN foOps
        /\ (Has("MaxLevel") /\ Len(LevelClauses) = 2) =>
              \E i \in 2..Len(foStrs) : foStrs[i] = LevelClauses[2]
        /\ (Has("MaxLevel") /\ ~Has("MinLevel")) =>
              \E i \in 1..Len(foStrs) : foStrs[i] = LevelClauses[1]
        /\ AdvancedClauses = 0 => foStrs = LevelClauses

\* "Dice = 1 or 2" for MinLevel = 1, MaxLevel = 2
C13_Witness ==
    /\ Rendered("Requirement")
    /\ foArgs = RequirementFormat
    /\ Has("MinLevel") /\ foSelf.operator.MinLevel = 1
    /\ Has("MaxLevel") /\ foSelf.operator.MaxLevel = 2
    /\ foRet = <<"D", "i", "c", "e", " ", "=", " ", "1", " ", "o", "r", " ", "2">>

\* the text of a Requirement rendered by template fmt with this figure
RequirementText(fmt, figure) ==
    format_kw(fmt,
        ("{}" :> figure) @@
        ("{quality}" :> unicode(foSelf.quality)) @@
        ("{quality.name}" :> foSelf.quality.name) @@
        ("{sep}" :> iif(foStrs, foArgs.sep)) @@
        ("{opsep}" :> iif(foStrs, foArgs.opsep)) @@
        ("{ops}" :> join(foArgs.opsep, foStrs)))

\* C14: with DifficultyLevel v on a Quality of scaler s, v and s not 0, the
\* figure in the rendered text is 50 - v*s for the luck category and
\* ceil(100*v/s) otherwise, whichever of MinLevel, MaxLevel, MinAdvanced and
\* MaxAdvanced are present too.
C14_ChallengeFigure ==
    (/\ Rendered("Requirement")
     /\ Has("DifficultyLevel")
     /\ ~Has("DifficultyAdvanced")
     /\ foSelf.operator.DifficultyLevel # 0
     /\ foSelf.quality.difficultyscaler # 0) =>
        LET v == foSelf.operator.DifficultyLevel
            s == foSelf.quality.difficultyscaler
        IN  IF foSelf.quality.category = Luck
            THEN foRet = RequirementText(foArgs.fmtchaluck, format_d(50 - v * s))
            ELSE /\ \E n \in 0..(100 * v) :
                       /\ n * s >= 100 * v
                       /\ (n - 1) * s < 100 * v
                       /\ foRet = RequirementText(foArgs.fmtcha, format_d(n))

\* C15: with DifficultyLevel v on a Quality that is not luck and has scaler 0,
\* rendering does not raise and the figure in the text is v.
C15_ZeroScalerRawValue ==
    (/\ foPc \in {"done", "raised"}
     /\ foSelf.cls = "Requirement"
     /\ Has("DifficultyLevel")
     /\ ~Has("DifficultyAdvanced")
     /\ foSelf.quality.category # Luck
     /\ foSelf.quality.difficultyscaler = 0) =>
        /\ foPc = "done"
        /\ foRet = RequirementText(foArgs.fmtcha,
                                   format_d(foSelf.operator.DifficultyLevel))

\* C16: an operator code that is neither in _OPS of the class nor hidden is
\* in the rendered text as the clause "code: value".
C16_UnlistedOperatorClause ==
    (foPc \in {"done", "raised"} /\ Has("Unlisted")) =>
        /\ foPc = "done"
        /\ str_find(foRet, <<"U", "n", "l", "i", "s", "t", "e", "d", ":", " ">>
                           \o format_d(foSelf.operator.Unlisted)) # 0

\* the text of an Effect rendered by template fmt, with these gates
EffectText(fmt, gates) ==
    format_kw(fmt,
        ("{name}" :> foSelf.quality.name) @@
        ("{sep}" :> iif(foStrs, foArgs.sep)) @@
        ("{ifsep}" :> iif(gates, foArgs.ifsep)) @@
        ("{ifs}" :> join(foArgs.opsep, gates)) @@
        ("{ops}" :> join(foArgs.opsep, foStrs)) @@
        ("{qtyops}" :> join(foArgs.qtyopsep, foQty)))

\* the names on a reversed scale: Terror, Hunger, and those that begin with
\* "Menaces:"
ReversedScale(name) ==
    \/ name \in {Terror, Hunger}
    \/ Len(name) >= Len(Menaces) /\ SubSeq(name, 1, Len(Menaces)) = Menaces

\* C17: an Effect with a Level is rendered in the reversed form, the delta in
\* parentheses, when the name of its Quality is on a reversed scale, and in
\* the form "name += delta" for every other name.
C17_ReversedScaleForm ==
    (Rendered("Effect") /\ Has("Level")) =>
        /\ foRet = EffectText(IF ReversedScale(foSelf.quality.name)
                              THEN foArgs.qfmtrev ELSE foArgs.qfmtqty, foIfs)
        /\ (foArgs = EffectFormat /\ foIfs = <<>> /\ ~Has("ChangeByAdvanced")) =>
              foRet = foSelf.quality.name \o <<" ", "+", "=", " ">> \o
                      (IF ReversedScale(foSelf.quality.name)
                       THEN <<"(">> \o format_d(foSelf.operator.Level) \o <<")">>
                       ELSE format_d(foSelf.operator.Level))

\* "Hunger += (-2)"
C17_Witness ==
    /\ Rendered("Effect")
    /\ foArgs = EffectFormat
    /\ Has("Level") /\ foSelf.operator.Level = 0 - 2
    /\ foRet = <<"H", "u", "n", "g", "e", "r", " ", "+", "=", " ", "(", "-", "2", ")">>

\* the clauses of the gates of an Effect
GateClauses ==
    LET min == foSelf.operator.OnlyIfAtLeast
        max == foSelf.operator.OnlyIfNoMoreThan
        both == Has("OnlyIfAtLeast") /\ Has("OnlyIfNoMoreThan")
    IN  IF both /\ max = min
        THEN <<Clause(foArgs.ifeqfmt, min)>>
        ELSE IF both /\ max = min + 1
        THEN <<format_kw(foArgs.ifadjfmt, ("{v1}" :> format_d(min)) @@
                                          ("{v2}" :> format_d(max)))>>
        ELSE (IF Has("OnlyIfAtLeast") THEN <<Clause(foArgs.ifminfmt, min)>> ELSE <<>>)
             \o (IF Has("OnlyIfNoMoreThan") THEN <<Clause(foArgs.ifmaxfmt, max)>>
                 ELSE <<>>)

\* how many of these operators the Effect has
HasHowMany(ops) == Cardinality({op \in ops : Has(op)})

\* C18: the gates of an Effect, OnlyIfAtLeast and OnlyIfNoMoreThan, are in no
\* clause of the main part; they make a list of their own, equal and adjacent
\* values merged into one clause, that is joined with " and " and put after
\* the main part behind the separator ", only if ", which is there if and
\* only if there is a gate.
C18_GatesAfterMainClause ==
    Rendered("Effect") =>
        /\ foIfs = GateClauses
        /\ Len(foStrs) = HasHowMany({"SetToExactly", "SetToExactlyAdvanced"})
        /\ Len(foQty) = HasHowMany({"Level", "ChangeByAdvanced"})
        /\ foRet = EffectText(eff_qfmt, <<>>) \o
                   (IF GateClauses = <<>> THEN <<>>
                    ELSE foArgs.ifsep \o join(foArgs.opsep, GateClauses))
        /\ (str_find(foRet, foArgs.ifsep) # 0) <=>
              (Has("OnlyIfAtLeast") \/ Has("OnlyIfNoMoreThan"))

\* "Mirrors += 1, only if = 1 or 2"
C18_Witness ==
    /\ Rendered("Effect")
    /\ foArgs = EffectFormat
    /\ Has("OnlyIfAtLeast") /\ foSelf.operator.OnlyIfAtLeast = 1
    /\ Has("OnlyIfNoMoreThan") /\ foSelf.operator.OnlyIfNoMoreThan = 2
    /\ foRet = Mirrors \o <<" ", "+", "=", " ", "1", ",", " ", "o", "n", "l", "y", " ",
                            "i", "f", " ", "=", " ", "1", " ", "o", "r", " ", "2">>

---------------------------------------------------------------------------
(* The claim about the outcomes of an Action (SpecAction)                  *)

\* the place of a slot in the priority order: default, rare default, success,
\* rare success
Priority(slot) ==
    CASE slot = "DefaultEvent"     -> 1
      [] slot = "RareDefaultEvent" -> 2
      [] slot = "SuccessEvent"     -> 3
      [] slot = "RareSuccessEvent" -> 4

\* the outcome slots among the keys of the record
SlotsPresent == {acData[i][1] : i \in 1..Len(acData)} \cap ActionKeys

\* C19: whichever of the four outcome slots the record of an Action has, and
\* in whatever order its keys are, the outcomes are its slots in the order
\* default, rare default, success, rare success, each tagged with its slot
\* and numbered from 1 in that order.
C19_OutcomesInPriorityOrder ==
    acPc = "built" =>
        /\ ~IsRaised(acSelf)
        /\ Len(acSelf.outcomes) = Cardinality(SlotsPresent)
        /\ {acSelf.outcomes[i].type : i \in 1..Len(acSelf.outcomes)} = SlotsPresent
        /\ \A i \in 1..Len(acSelf.outcomes) :
              /\ acSelf.outcomes[i].idx = i
              /\ acSelf.outcomes[i].id = 10 * Priority(acSelf.outcomes[i].type)
              /\ \A j \in 1..Len(acSelf.outcomes) :
                    i < j => Priority(acSelf.outcomes[i].type)
                             < Priority(acSelf.outcomes[j].type)

\* the record lists rare success first and default last, and the outcomes
\* are default, rare default, success, rare success
C19_Witness ==
    /\ acPc = "built"
    /\ Len(acData) = 6
    /\ acData[1][1] = "RareSuccessEvent"
    /\ acData[2][1] = "SuccessEvent"
    /\ acData[6][1] = "DefaultEvent"
    /\ [i \in 1..4 |-> acSelf.outcomes[i].type] =
         <<"DefaultEvent", "RareDefaultEvent", "SuccessEvent", "RareSuccessEvent">>

---------------------------------------------------------------------------
(* The claim about a second run of the trigger loops (SpecGraph)           *)

\* the outcomes whose trigger is an Event object
ResolvedTriggers(events) ==
    {k \in 1..Len(OutcomePlaces(events)) :
        OutcomeAt(events, OutcomePlaces(events)[k]).trigger.kind \in {"ref", "own"}}

\* C20: once the trigger of an Outcome is an Event object, the loops that
\* resolve triggers leave it that object when they are run again, and look
\* no id up: after construction no trigger is an int any more, and the loops
\* run on the events once more change nothing.
C20_TriggerResolutionIdempotent ==
    ssPc = "done" =>
        /\ ssEvents = link_loop(EntitiesFromData("Events", ssData.events, SS), 1)
        /\ \A k \in 1..Len(OutcomePlaces(ssEvents)) :
              /\ OutcomeAt(ssEvents, OutcomePlaces(ssEvents)[k]).trigger.kind # "int"
              /\ link_body(ssEvents, OutcomePlaces(ssEvents)[k]) = ssEvents
        /\ link_loop(ssEvents, 1) = ssEvents

\* construction is over and two outcomes have an Event as their trigger
C20_Witness ==
    /\ ssPc = "done"
    /\ Cardinality(ResolvedTriggers(ssEvents)) = 2
    /\ link_loop(ssEvents, 1) = ssEvents

---------------------------------------------------------------------------
(* The claims about the geography and the integrity checks (SpecGeo)       *)

\* SunlessSea.__init__ without TEST_INTEGRITY, on the data of this run and
\* as far as it goes: the containers it builds and whether a constructor
\* raises
Unchecked ==
    LET qualities == EntitiesFromData("Qualities", ssData.qualities, None)
        areas     == EntitiesFromData("Locations", ssData.areas, None)
        ss        == [qualities |-> qualities, locations |-> areas]
        events    == EntitiesFromData("Events", ssData.events, ss)
        geography == settings_loop(areas, <<>>, PortData(ssData.tiles), 1)
    IN  [qualities |-> qualities,
         locations |-> geography.locations,
         settings  |-> geography.settings,
         autosave  |-> EntitiesFromData("SaveQualities",
                                        ssData.save.QualitiesPossessedList, ss),
         shops     |-> Entities("Shops",
                          create_shop(ssData.exchanges, geography.settings, ss)),
         events    |-> link_loop(events, 1)]

\* C21: the integrity checks only log. With TEST_INTEGRITY set, a
\* construction that ends has built the qualities, locations, settings, save
\* qualities, shops and events that the construction without checks builds
\* from the same data, and a construction that raises does so where the one
\* without checks raises too, never in a check.
C21_IntegrityChecksOnlyLog ==
    ssCheck =>
        /\ ssPc = "done" =>
              /\ ssQualities = Unchecked.qualities
              /\ ssLocations = Unchecked.locations
              /\ ssSettings = Unchecked.settings
              /\ ssAutosave = Unchecked.autosave
              /\ ssShops = Unchecked.shops
              /\ ssEvents = Unchecked.events
        /\ ssPc = "raised" =>
              /\ ssRaised.in = "triggers"
              /\ IsRaised(Unchecked.events)

\* a construction with the checks on has ended, and the checks have logged
\* an area that two ports list under different settings
C21_Witness ==
    /\ ssCheck
    /\ ssPc = "done"
    /\ \E i \in 1..Len(ssLog) : ssLog[i].msg = "Area is not 1:1 with Settings"
    /\ \E i \in 1..Len(ssLog) : ssLog[i].msg = "Duplicate quality"

\* the ports of the data, and the exchange that each Shop comes from
Ports == PortData(ssData.tiles)

ExchangeOf ==
    Concat([x \in 1..Len(ssData.exchanges) |->
              [i \in 1..Len(ssData.exchanges[x].Shops) |-> ssData.exchanges[x]]])

\* the locations that the ports group under setting sid: for each port of
\* that setting, the Location of its area
GroupedUnder(sid) ==
    {port_location(ssLocations, Ports[k], k) :
        k \in {k \in 1..Len(Ports) : Ports[k].sid = sid}}

Declared(exchange) == {exchange.SettingIds[i] : i \in 1..Len(exchange.SettingIds)}

\* C22: the locations of each Shop are the union, over the setting ids that
\* its exchange declares, of the locations the ports group under that
\* setting; a declared id that no port has adds nothing, and the Shops are
\* built whatever ids are declared.
C22_ShopLocationsUnionOfSettings ==
    /\ ssPc \in {"triggers", "done"} =>
          /\ Len(ssShops.order) = Len(ExchangeOf)
          /\ \A i \in 1..Len(ssShops.order) :
                ssShops.order[i].locations =
                   UNION {GroupedUnder(sid) : sid \in Declared(ExchangeOf[i])}
    /\ ssPc = "raised" => ssRaised.in # "shops"

\* a Shop whose exchange declares a setting that no port has and two
\* settings that ports have, with locations of both
C22_Witness ==
    /\ ssPc = "done"
    /\ Declared(ExchangeOf[1]) = {1, 2, 3}
    /\ GroupedUnder(3) = {}
    /\ GroupedUnder(1) # {}
    /\ GroupedUnder(2) # {}
    /\ GroupedUnder(1) # GroupedUnder(2)
    /\ Cardinality(ssShops.order[1].locations) = 2

\* the ports the loop of _create_settings has been through
PortsDone ==
    IF ssPc = "settings" THEN 1..(ssAt - 1)
    ELSE IF ssPc \in {"shops", "triggers", "done"} THEN 1..Len(Ports)
    ELSE {}

\* the writes of "location.setting = sid" so far to the i-th Location: one
\* for each port gone through whose area is found to be that Location
SettingWrites(i) ==
    {k \in PortsDone : port_location(ssLocations, Ports[k], k) = RefTo(i)}

\* C24: the setting of a Location is assigned once: whatever the ports, the
\* loop over them writes the setting of each Location at most one time.
C24_SettingAssignedOnce ==
    ssLocations # None =>
        \A i \in 1..Len(ssLocations.order) : Cardinality(SettingWrites(i)) <= 1

\* the ids of the records of areas_import.json
LoadedAreas == {ssData.areas[i].Id : i \in 1..Len(ssData.areas)}

\* the Events are built
EventsBuilt == ssPc \in {"autosave", "settings", "shops", "triggers", "done"}

\* C25: an Event without LimitedToArea has no location; one whose
\* LimitedToArea id is in the Locations has the Location that the collection
\* returns for that id; one whose id is not there is built all the same, its
\* location a Location made in place that bears the raw id.
C25_EventLocationOrPlaceholder ==
    /\ ssPc = "raised" => ssRaised.in # "events"
    /\ EventsBuilt =>
          /\ Len(ssEvents.order) = Len(ssData.events)
          /\ \A k \in 1..Len(ssData.events) :
                LET data     == ssData.events[k]
                    location == ssEvents.order[k].location
                IN  IF "LimitedToArea" \notin DOMAIN data THEN location = None
                    ELSE IF data.LimitedToArea.Id \in LoadedAreas
                    THEN /\ location.kind = "ref"
                         /\ ssLocations.order[location.at].id = data.LimitedToArea.Id
                         /\ ssLocations.order[location.at] =
                               get(ssLocations, data.LimitedToArea.Id, None)
                    ELSE /\ location.kind = "own"
                         /\ location.obj.id = data.LimitedToArea.Id
                         /\ location.obj.setting = 0

\* the Events are built: one of an area that is loaded, one of an area that
\* is not
C25_Witness ==
    /\ ssPc = "done"
    /\ \E k \in 1..Len(ssEvents.order) : ssEvents.order[k].location.kind = "ref"
    /\ \E k \in 1..Len(ssEvents.order) :
          /\ ssEvents.order[k].location.kind = "own"
          /\ ssEvents.order[k].location.obj.id \notin LoadedAreas

---------------------------------------------------------------------------
(* The claim about the value of a SaveQuality (SpecSave)                   *)

\* the integers the values given to the setter can stand for
SetRange == (0 - 30)..30

\* what int() makes of a value: the int itself, the integral part of a
\* float, the number that a string writes, with its sign
IsIntOf(n, value) ==
    \/ "int" \in DOMAIN value /\ n = value.int
    \/ /\ "tenths" \in DOMAIN value
       /\ \E frac \in 0..9 : value.tenths \in {10 * n + frac, 10 * n - frac}
       /\ (n = 0 \/ (n > 0) = (value.tenths > 0))
    \/ /\ "text" \in DOMAIN value
       /\ \E digits \in {str(m) : m \in 0..30} :
             \/ n = int(digits) /\ strip(value.text) \in {digits, <<"+">> \o digits}
             \/ n = 0 - int(digits) /\ strip(value.text) = <<"-">> \o digits

\* C23: after a SaveQuality's value is set to v, its value reads int(v) and
\* the record of that SaveQuality in QualitiesPossessedList, as Save.dump
\* returns it, has Level int(v); the modifier, the quality and the record of
\* every other SaveQuality are as they were.
C23_SetValueRoundTrips ==
    [][(svPc = "built" /\ svPc' = "set" /\ svRet' = None) =>
          LET self  == svQualities.order[svCall'.self]
              list  == save_dump(svData).QualitiesPossessedList
              list2 == save_dump(svData').QualitiesPossessedList
          IN  /\ IsIntOf(value_getter(svData', self), svCall'.value)
              /\ IsIntOf(list2[self.idx].Level, svCall'.value)
              /\ savequality_dump(svData', self) = list2[self.idx]
              /\ list2[self.idx] =
                    [list[self.idx] EXCEPT !.Level = list2[self.idx].Level]
              /\ \A j \in 1..Len(list) : j # self.idx => list2[j] = list[j]
              /\ Len(list2) = Len(list)
              /\ svQualities' = svQualities]_vars

\* the value of the second SaveQuality was set to a string of a number other
\* than its Level, and the first SaveQuality is of the same quality
C23_Witness ==
    /\ svPc = "set"
    /\ svRet = None
    /\ svCall.self = 2
    /\ svCall.value = TextValue(<<" ", "-", "3">>)
    /\ value_getter(svData, svQualities.order[2]) = 0 - 3
    /\ svQualities.order[1].id = svQualities.order[2].id
    /\ value_getter(svData, svQualities.order[1]) = 5

---------------------------------------------------------------------------
(* The claim about links to Events that are built later (SpecGraph)        *)

\* the outcome at place links to an Event whose record comes later in the
\* data than the record of its own Event
ForwardReference(place) ==
    /\ "LinkToEvent" \in DOMAIN OutcomeData(place)
    /\ \E k \in (place[1] + 1)..Len(ssData.events) :
          ssData.events[k].Id = OutcomeData(place).LinkToEvent.Id

\* C26: triggers are resolved once all Events are built. After construction
\* an Outcome that links to an Event built later than its own has for
\* trigger the Event that events.get returns for the id, not one made in
\* place, and no Outcome of the Events has an int left as its trigger.
C26_ForwardReferencesResolved ==
    ssPc = "done" =>
        \A k \in 1..Len(OutcomePlaces(ssEvents)) :
            LET place   == OutcomePlaces(ssEvents)[k]
                trigger == OutcomeAt(ssEvents, place).trigger
            IN  /\ trigger.kind # "int"
                /\ ForwardReference(place) =>
                      /\ trigger.kind = "ref"
                      /\ ssEvents.order[trigger.at] =
                            get(ssEvents, OutcomeData(place).LinkToEvent.Id, None)
                      /\ ssEvents.order[trigger.at].id =
                            OutcomeData(place).LinkToEvent.Id

\* construction is over and the outcome of the first Event links to the
\* second one
C26_Witness ==
    /\ ssPc = "done"
    /\ Len(ssEvents.order) = 2
    /\ ForwardReference(<<1, 1, 1>>)
    /\ OutcomeAt(ssEvents, <<1, 1, 1>>).trigger = RefTo(2)

---------------------------------------------------------------------------
(* The claim about the usages of a Quality (SpecUsage)                     *)

\* the Quality whose usage is asked for
UsageQuality == iter(UsageSS.qualities)[usSelf].id

On(qualops) == {qualops[i].quality.id : i \in 1..Len(qualops)}

\* the Event at place k is in results
Reported(k) == k \in DOMAIN usRet.events

\* the requirements, of Events and of their actions, on the Quality are
\* reported, and so are the outcomes with an effect on it
UsageOfRequirementsAndOutcomes ==
    (usPc = "done" /\ ~IsRaised(usRet)) =>
        \A k \in 1..Len(iter(usEvents)) :
            LET e == iter(usEvents)[k]
            IN  /\ UsageQuality \in On(e.requirements) =>
                      Reported(k) /\ usRet.events[k].req # None
                /\ \A a \in 1..Len(e.actions) :
                      /\ UsageQuality \in On(e.actions[a].requirements) =>
                            /\ Reported(k)
                            /\ a \in DOMAIN usRet.events[k].act
                            /\ usRet.events[k].act[a].req # None
                      /\ \A o \in 1..Len(e.actions[a].outcomes) :
                            UsageQuality \in On(e.actions[a].outcomes[o].effects) =>
                               /\ Reported(k)
                               /\ a \in DOMAIN usRet.events[k].act
                               /\ \E i \in 1..Len(usRet.events[k].act[a].out) :
                                     usRet.events[k].act[a].out[i] =
                                        e.actions[a].outcomes[o]

\* C27: usage reports all usages of a Quality Q: it returns, and every Event
\* with an effect on Q, every Event or action with a requirement on Q, every
\* outcome with an effect on Q and every shop item that trades Q is in what
\* it reports; an Event is reported for an effect only when one of its
\* effects is on Q.
C27_UsageShowsAllUsages ==
    usPc = "done" =>
        /\ ~IsRaised(usRet)
        /\ UsageOfRequirementsAndOutcomes
        /\ \A k \in 1..Len(iter(usEvents)) :
              /\ UsageQuality \in On(iter(usEvents)[k].effects) =>
                    Reported(k) /\ usRet.events[k].eff # None
              /\ (Reported(k) /\ usRet.events[k].eff # None) =>
                    UsageQuality \in On(iter(usEvents)[k].effects)
        /\ \A s \in 1..Len(iter(usShops)) :
              \A i \in 1..Len(iter(usShops)[s].items) :
                 UsageQuality \in {iter(usShops)[s].items[i].item.id,
                                   iter(usShops)[s].items[i].currency.id} =>
                    /\ s \in DOMAIN usRet.shops
                    /\ \E j \in 1..Len(usRet.shops[s]) :
                          usRet.shops[s][j] = iter(usShops)[s].items[i]

---------------------------------------------------------------------------
(* The claims about the clauses of a rendered operator (SpecFormat)        *)

\* every clause of the list is in the rendered text
AllIn(clauses) == \A i \in 1..Len(clauses) : str_find(foRet, clauses[i]) # 0

\* C28: the rendered text of an Effect has a clause for every operator of
\* _OPS that its mapping holds: the deltas (Level, ChangeByAdvanced), the
\* sets (SetToExactly, SetToExactlyAdvanced) and the gates; with a delta and
\* a set both present, the delta clause and the set clause are both in it.
C28_ClauseForEveryOperator ==
    Rendered("Effect") =>
        /\ Len(foQty) = HasHowMany({"Level", "ChangeByAdvanced"})
        /\ Len(foStrs) = HasHowMany({"SetToExactly", "SetToExactlyAdvanced"})
        /\ foIfs = GateClauses
        /\ AllIn(foQty)
        /\ AllIn(foStrs)
        /\ AllIn(foIfs)

\* C29: rendering a Requirement, in the default or in the wiki form, returns
\* a text and raises nothing, whatever its mapping holds: also when it holds
\* none of the operators of _OPS, only hidden or unknown codes or none at all.
C29_RequirementAlwaysRenders ==
    (foPc \in {"done", "raised"} /\ foSelf.cls = "Requirement") =>
        /\ foPc = "done"
        /\ foRet # Raised("UnboundLocalError")
        /\ foRet \in Seq(DOMAIN foRet \cup {foRet[i] : i \in DOMAIN foRet})

---------------------------------------------------------------------------
(* The claim about the length of a container (SpecColl)                    *)

\* len(coll) is the number of entities that iterating coll yields, and no
\* two of them have the same ID
LenIsCount(coll) ==
    /\ len(coll) = Len(iter(coll))
    /\ \A j, k \in 1..Len(iter(coll)) :
          iter(coll)[j].id = iter(coll)[k].id => j = k

\* C30: for a container built from any sequence of records, records of the
\* same ID included, and for every container that find or a slice returns,
\* len is the number of entities that iteration yields, and no two of the
\* yielded entities have the same ID.
C30_LenCountsIteratedEntities ==
    /\ collSelf # None => LenIsCount(collSelf)
    /\ (collPc = "done" /\ IsContainer(collRet)) => LenIsCount(collRet)

=============================================================================
